---- MODULE Spec2Model ----
(***************************************************************************)
(* A model of the design-token server: the stylesheet token parser, the    *)
(* token registry, the memoized rule store and the usage validation        *)
(* engine.                                                                 *)
(*                                                                         *)
(* A JavaScript string is a sequence of one-character strings, so that     *)
(* the regular expressions of the source are computed character by         *)
(* character.  An optional field (absent / null / undefined) is the empty  *)
(* sequence None, a present one the one-element sequence Some(x).          *)
(***************************************************************************)
EXTENDS Integers, Sequences, FiniteSets, TLC

\* ------------------------------------------------------------------------
\* Strings
\* ------------------------------------------------------------------------

None == <<>>
Some(x) == <<x>>

Min(S) == CHOOSE x \in S : \A y \in S : x <= y
Max(S) == CHOOSE x \in S : \A y \in S : x >= y

LowerCase == {"a","b","c","d","e","f","g","h","i","j","k","l","m",
              "n","o","p","q","r","s","t","u","v","w","x","y","z"}
UpperCase == {"A","B","C","D","E","F","G","H","I","J","K","L","M",
              "N","O","P","Q","R","S","T","U","V","W","X","Y","Z"}
Digits == {"0","1","2","3","4","5","6","7","8","9"}

\* \s of a JavaScript regular expression, and what trim() removes
WhiteSpace == {" ", "\t", "\n", "\r"}

\* [a-zA-Z0-9_-]
NameChars == LowerCase \cup UpperCase \cup Digits \cup {"_", "-"}

Take(s, n) == SubSeq(s, 1, n)
Drop(s, n) == SubSeq(s, n + 1, Len(s))

StartsWith(s, p) == Len(s) >= Len(p) /\ Take(s, Len(p)) = p
EndsWith(s, p) == Len(s) >= Len(p) /\ Drop(s, Len(s) - Len(p)) = p

\* String.prototype.indexOf, 1-based; 0 when p does not occur in s
IndexOf(s, p) ==
  LET I == {i \in 1..(Len(s) - Len(p) + 1) : SubSeq(s, i, i + Len(p) - 1) = p}
  IN IF I = {} THEN 0 ELSE Min(I)

Includes(s, p) == IndexOf(s, p) # 0

TrimStart(s) ==
  LET I == {i \in 1..Len(s) : s[i] \notin WhiteSpace}
  IN IF I = {} THEN <<>> ELSE Drop(s, Min(I) - 1)

TrimEnd(s) ==
  LET I == {i \in 1..Len(s) : s[i] \notin WhiteSpace}
  IN IF I = {} THEN <<>> ELSE Take(s, Max(I))

Trim(s) == TrimEnd(TrimStart(s))

\* s.replace(/\s+/g, " ")
RECURSIVE CollapseWs(_)
CollapseWs(s) ==
  IF s = <<>> THEN <<>>
  ELSE IF s[1] \in WhiteSpace THEN <<" ">> \o CollapseWs(TrimStart(s))
  ELSE <<s[1]>> \o CollapseWs(Tail(s))

\* s.split(c) for a one-character separator c
RECURSIVE Split(_, _)
Split(s, c) ==
  LET i == IndexOf(s, <<c>>)
  IN IF i = 0 THEN <<s>> ELSE <<Take(s, i - 1)>> \o Split(Drop(s, i), c)

\* ss.join(sep)
RECURSIVE Join(_, _)
Join(ss, sep) ==
  IF ss = <<>> THEN <<>>
  ELSE IF Len(ss) = 1 THEN ss[1]
  ELSE ss[1] \o sep \o Join(Tail(ss), sep)

\* the first index >= j of line that holds no character of set cs
\* (Len(line) + 1 when the run reaches the end of the line)
RunEnd(line, j, cs) ==
  LET stop == {k \in j..Len(line) : line[k] \notin cs}
  IN IF stop = {} THEN Len(line) + 1 ELSE Min(stop)

\* ------------------------------------------------------------------------
\* parseTokenFile: the line scanner
\* ------------------------------------------------------------------------

\* line.match(/--([a-zA-Z0-9_-]+)\s*:\s*([^;]+);/) tried at index i:
\* the name is the maximal run of name characters after "--", the colon
\* follows optional white space, and the value is the non-empty stretch up
\* to the first semicolon
TokenMatchAt(line, i) ==
  /\ i + 1 <= Len(line)
  /\ line[i] = "-"
  /\ line[i + 1] = "-"
  /\ LET j == RunEnd(line, i + 2, NameChars)
         k == RunEnd(line, j, WhiteSpace)
     IN /\ j > i + 2
        /\ k + 1 <= Len(line)
        /\ line[k] = ":"
        /\ line[k + 1] # ";"
        /\ \E e \in (k + 2)..Len(line) : line[e] = ";"

\* the leftmost match: None, or Some([name, raw]) with name "--" and group
\* 1, and raw the text between the colon and the first semicolon
\* (group 2 is raw without its leading white space)
TokenMatch(line) ==
  LET I == {i \in 1..Len(line) : TokenMatchAt(line, i)}
  IN IF I = {} THEN None
     ELSE LET i == Min(I)
              j == RunEnd(line, i + 2, NameChars)
              k == RunEnd(line, j, WhiteSpace)
              e == Min({x \in (k + 2)..Len(line) : line[x] = ";"})
          IN Some([name |-> SubSeq(line, i, j - 1),
                   raw |-> SubSeq(line, k + 1, e - 1)])

NormalizeValue_TrimOnly(raw) == Trim(raw)

\* tokenMatch[2].trim().replace(/\s+/g, " ")
NormalizeValue(raw) == CollapseWs(Trim(raw))

InlineSlashComment_Never(line) == None

\* line.match(/;\s*\/\/\s*(.+)$/): None, or Some(group 1 trimmed)
InlineSlashComment(line) ==
  LET I == {i \in 1..Len(line) :
              /\ line[i] = ";"
              /\ LET k == RunEnd(line, i + 1, WhiteSpace)
                 IN /\ k + 2 <= Len(line)
                    /\ line[k] = "/"
                    /\ line[k + 1] = "/"}
  IN IF I = {} THEN None
     ELSE LET k == RunEnd(line, Min(I) + 1, WhiteSpace)
          IN Some(Trim(Drop(line, k + 1)))

\* line.match(/;\s*\/\*\s*(.+?)\s*\*\/\s*$/): None, or Some(group 1 trimmed)
InlineBlockComment(line) ==
  LET t == TrimEnd(line)
      I == {i \in 1..Len(t) :
              /\ line[i] = ";"
              /\ LET k == RunEnd(t, i + 1, WhiteSpace)
                 IN /\ k + 4 <= Len(t)
                    /\ t[k] = "/"
                    /\ t[k + 1] = "*"
                    /\ t[Len(t) - 1] = "*"
                    /\ t[Len(t)] = "/"}
  IN IF I = {} THEN None
     ELSE LET k == RunEnd(t, Min(I) + 1, WhiteSpace)
          IN Some(Trim(SubSeq(t, k + 2, Len(t) - 2)))

\* trimmedLine.match(/^\/\*\s*(.+?)\s*\*\/$/): None, or Some(group 1)
SingleLineBlockMatch(trimmedLine) ==
  IF /\ Len(trimmedLine) >= 5
     /\ StartsWith(trimmedLine, <<"/", "*">>)
     /\ EndsWith(trimmedLine, <<"*", "/">>)
  THEN LET inner == SubSeq(trimmedLine, 3, Len(trimmedLine) - 2)
       IN IF Trim(inner) = <<>> THEN Some(<<inner[Len(inner)]>>)
          ELSE Some(Trim(inner))
  ELSE None

\* s.replace(/^\*\s*/, "")
StripStar(s) ==
  IF StartsWith(s, <<"*">>) THEN TrimStart(Tail(s)) ELSE s

\* Map.prototype.set: a new key is appended, an existing key keeps its
\* place and takes the new data
MapSet_KeepFirst(m, name, data) ==
  IF \E i \in 1..Len(m) : m[i].name = name THEN m
  ELSE Append(m, [name |-> name, data |-> data])

MapSet(m, name, data) ==
  LET I == {i \in 1..Len(m) : m[i].name = name}
      entry == [name |-> name, data |-> data]
  IN IF I = {} THEN Append(m, entry)
     ELSE [m EXCEPT ![Min(I)] = entry]

MapHas(m, name) == \E i \in 1..Len(m) : m[i].name = name

\* Map.prototype.get, None for undefined
MapGet(m, name) ==
  LET I == {i \in 1..Len(m) : m[i].name = name}
  IN IF I = {} THEN None ELSE Some(m[Min(I)].data)

\* the scanner's state before the first line
ScanInit ==
  [tokens |-> <<>>, currentSection |-> None, pendingComments |-> <<>>,
   inBlockComment |-> FALSE, blockCommentLines |-> <<>>]

PushIf(list, s) == IF s = <<>> THEN list ELSE Append(list, s)

ScanDeclaration_KeepsPending(st, line, m, fileName, category) ==
  [st EXCEPT !.tokens =
     MapSet(@, m.name,
            [value |-> NormalizeValue(m.raw), file |-> fileName,
             category |-> category,
             section |-> IF st.currentSection # None /\ st.currentSection[1] # <<>>
                         THEN st.currentSection ELSE None,
             comment |-> IF Len(PushIf(st.pendingComments,
                                       IF InlineSlashComment(line) # None
                                       THEN InlineSlashComment(line)[1]
                                       ELSE IF InlineBlockComment(line) # None
                                       THEN InlineBlockComment(line)[1]
                                       ELSE <<>>)) > 0
                         THEN Some(Join(PushIf(st.pendingComments,
                                       IF InlineSlashComment(line) # None
                                       THEN InlineSlashComment(line)[1]
                                       ELSE IF InlineBlockComment(line) # None
                                       THEN InlineBlockComment(line)[1]
                                       ELSE <<>>), <<" ", "|", " ">>))
                         ELSE None])]

\* the declaration branch of the loop body: build the token data, set it
\* in the map and reset the pending comments
ScanDeclaration(st, line, m, fileName, category) ==
  LET slash == InlineSlashComment(line)
      block == InlineBlockComment(line)
      inlineComment == IF slash # None THEN slash[1]
                       ELSE IF block # None THEN block[1]
                       ELSE <<>>
      allComments == PushIf(st.pendingComments, inlineComment)
      tokenData ==
        [value |-> NormalizeValue(m.raw),
         file |-> fileName,
         category |-> category,
         section |-> IF st.currentSection # None /\ st.currentSection[1] # <<>>
                     THEN st.currentSection ELSE None,
         comment |-> IF Len(allComments) > 0
                     THEN Some(Join(allComments, <<" ", "|", " ">>))
                     ELSE None]
  IN [st EXCEPT !.tokens = MapSet(st.tokens, m.name, tokenData),
                !.pendingComments = <<>>]

\* the tail of the loop body: a selector line resets the pending comments
ScanSelectorReset(st, trimmedLine) ==
  IF /\ ~StartsWith(trimmedLine, <<"/", "/">>)
     /\ ~StartsWith(trimmedLine, <<"/", "*">>)
     /\ ~Includes(trimmedLine, <<"-", "-">>)
     /\ Len(trimmedLine) > 0
     /\ ~StartsWith(trimmedLine, <<"{">>)
     /\ ~StartsWith(trimmedLine, <<"}">>)
     /\ \/ Includes(trimmedLine, <<":", "r", "o", "o", "t">>)
        \/ Includes(trimmedLine, <<"[", "k", "s", "-">>)
  THEN [st EXCEPT !.pendingComments = <<>>]
  ELSE st

SectionHeader_KeepsPending(st, trimmedLine) ==
  [st EXCEPT !.currentSection = Some(Trim(Drop(trimmedLine, 3)))]

\* the section header branch of the loop body: the text behind "///" is
\* the current section, and the pending comments are reset
SectionHeader(st, trimmedLine) ==
  [st EXCEPT !.currentSection = Some(Trim(Drop(trimmedLine, 3))),
             !.pendingComments = <<>>]

\* one iteration of the loop over the lines
ScanLine(st, line, fileName, category) ==
  LET trimmedLine == Trim(line)
  IN IF /\ StartsWith(trimmedLine, <<"/", "*">>)
        /\ ~Includes(trimmedLine, <<"*", "/">>)
     THEN \* block comment start
          [st EXCEPT !.inBlockComment = TRUE,
                     !.blockCommentLines =
                        PushIf(@, Trim(TrimStart(Drop(trimmedLine, 2))))]
     ELSE IF st.inBlockComment
     THEN IF Includes(trimmedLine, <<"*", "/">>)
          THEN \* block comment end
               LET before == Take(trimmedLine, IndexOf(trimmedLine, <<"*", "/">>) - 1)
                   lines == PushIf(st.blockCommentLines, Trim(StripStar(before)))
               IN [st EXCEPT !.inBlockComment = FALSE,
                             !.pendingComments =
                                IF Len(lines) > 0
                                THEN Append(@, Join(lines, <<" ">>))
                                ELSE @,
                             !.blockCommentLines = <<>>]
          ELSE \* middle of a block comment
               [st EXCEPT !.blockCommentLines =
                             PushIf(@, Trim(StripStar(trimmedLine)))]
     ELSE IF SingleLineBlockMatch(trimmedLine) # None
     THEN [st EXCEPT !.pendingComments =
                        Append(@, SingleLineBlockMatch(trimmedLine)[1])]
     ELSE IF StartsWith(trimmedLine, <<"/", "/", "/">>)
     THEN SectionHeader(st, trimmedLine)
     ELSE IF StartsWith(trimmedLine, <<"/", "/">>)
     THEN \* regular comment
          [st EXCEPT !.pendingComments = PushIf(@, Trim(Drop(trimmedLine, 2)))]
     ELSE LET m == TokenMatch(line)
              st1 == IF m # None
                     THEN ScanDeclaration(st, line, m[1], fileName, category)
                     ELSE st
          IN ScanSelectorReset(st1, trimmedLine)

RECURSIVE ScanLines(_, _, _, _)
ScanLines(st, lines, fileName, category) ==
  IF lines = <<>> THEN st
  ELSE ScanLines(ScanLine(st, Head(lines), fileName, category),
                 Tail(lines), fileName, category)

\* the try block of parseTokenFile on the content read: the token map, a
\* sequence of [name, data] in insertion order
ParseContent(content, fileName, category) ==
  ScanLines(ScanInit, Split(content, "\n"), fileName, category).tokens


\* ------------------------------------------------------------------------
\* The token registry
\* ------------------------------------------------------------------------

\* Two of the global sources of TOKEN_FILES, in the key order of the object
\* literal, and one of the component sources of COMPONENT_TOKEN_FILES
TOKEN_FILES ==
  << [key |-> "branding", file |-> "branding-tokens.css", category |-> "branding"],
     [key |-> "color", file |-> "color-token.scss", category |-> "color"] >>

COMPONENT_TOKEN_FILES ==
  << [slug |-> <<"b","u","t","t","o","n">>, file |-> "button-tokens.scss",
      category |-> "forms"] >>

TOKENS_DIR == "tokens"
COMPONENT_TOKENS_DIR == "tokens/componentToken"

\* path.join(dir, file); path.basename of it is its second component
Path(dir, file) == <<dir, file>>

\* parseTokenFile on file system fs (a function from paths to None, for a
\* file that cannot be read, or Some(content)): a failed read is caught
\* and yields the empty map
parseTokenFile(fs, filePath, category) ==
  IF fs[filePath] = None THEN <<>>
  ELSE ParseContent(fs[filePath][1], filePath[2], category)

\* for (const [name, data] of tokens.entries()) allTokens.set(name, data)
RECURSIVE MapSetAll(_, _)
MapSetAll(allTokens, tokens) ==
  IF tokens = <<>> THEN allTokens
  ELSE MapSetAll(MapSet(allTokens, Head(tokens).name, Head(tokens).data),
                 Tail(tokens))

MergeSources_StopAtUnreadable(fs, entries, allTokens) ==
  IF \E i \in 1..Len(entries) : fs[Path(TOKENS_DIR, entries[i].file)] = None
  THEN <<>>
  ELSE MapSetAll(MapSetAll(allTokens,
                           IF Len(entries) >= 1
                           THEN parseTokenFile(fs, Path(TOKENS_DIR, entries[1].file), entries[1].category)
                           ELSE <<>>),
                 IF Len(entries) >= 2
                 THEN parseTokenFile(fs, Path(TOKENS_DIR, entries[2].file), entries[2].category)
                 ELSE <<>>)

\* the loop of parseAllTokens over the registry entries: a source whose
\* file does not exist is skipped
RECURSIVE MergeSources(_, _, _)
MergeSources(fs, entries, allTokens) ==
  IF entries = <<>> THEN allTokens
  ELSE LET config == Head(entries)
           filePath == Path(TOKENS_DIR, config.file)
           tokens == IF fs[filePath] = None THEN <<>>
                     ELSE parseTokenFile(fs, filePath, config.category)
       IN MergeSources(fs, Tail(entries), MapSetAll(allTokens, tokens))

parseAllTokens(fs, fileFilter) ==
  LET filesToParse ==
        IF fileFilter = None THEN TOKEN_FILES
        ELSE SelectSeq(TOKEN_FILES, LAMBDA c : c.key = fileFilter[1])
  IN MergeSources(fs, filesToParse, <<>>)

\* ------------------------------------------------------------------------
\* parseComponentTokenName and classifyTokenValue
\* ------------------------------------------------------------------------

\* the states that can appear as suffixes
STATES ==
  << <<"h","o","v","e","r">>,
     <<"a","c","t","i","v","e">>,
     <<"f","o","c","u","s">>,
     <<"c","h","e","c","k","e","d">>,
     <<"s","e","l","e","c","t","e","d">>,
     <<"d","i","s","a","b","l","e","d">>,
     <<"o","p","e","n">> >>

\* String.prototype.lastIndexOf, 1-based; 0 when p does not occur in s
LastIndexOf(s, p) ==
  LET I == {i \in 1..(Len(s) - Len(p) + 1) : SubSeq(s, i, i + Len(p) - 1) = p}
  IN IF I = {} THEN 0 ELSE Max(I)

\* s.replace(/-/g, "_")
DashesToUnderscores(s) == [i \in 1..Len(s) |-> IF s[i] = "-" THEN "_" ELSE s[i]]

\* [a-zA-Z0-9-]
WordChars == LowerCase \cup UpperCase \cup Digits \cup {"-"}

\* the end of the longest match of [a-z]+(?:-[a-z]+)* that starts at index
\* i of s (i - 1 when there is none)
RECURSIVE SlugEnd(_, _)
SlugEnd(s, i) ==
  LET j == RunEnd(s, i, LowerCase)
  IN IF j = i THEN i - 1
     ELSE IF j <= Len(s) /\ s[j] = "-" /\ SlugEnd(s, j + 1) >= j + 1
     THEN SlugEnd(s, j + 1)
     ELSE j - 1

\* the name without the component prefix: the first of the three prefixes
\* it starts with is cut off, or else what
\* /^--(?:dsa|l)-[a-z]+(?:-[a-z]+)*/ matches
StripComponentPrefix(name, knownComponent) ==
  LET dsa == <<"-","-","d","s","a","-">>
      l == <<"-","-","l","-">>
      prefixes == << dsa \o knownComponent, l \o knownComponent,
                     dsa \o DashesToUnderscores(knownComponent) >>
      I == {i \in 1..3 : StartsWith(name, prefixes[i])}
  IN IF I # {} THEN Drop(name, Len(prefixes[Min(I)]))
     ELSE IF StartsWith(name, dsa) /\ SlugEnd(name, Len(dsa) + 1) > Len(dsa)
     THEN Drop(name, SlugEnd(name, Len(dsa) + 1))
     ELSE IF StartsWith(name, l) /\ SlugEnd(name, Len(l) + 1) > Len(l)
     THEN Drop(name, SlugEnd(name, Len(l) + 1))
     ELSE name

\* the split of the remainder at the last "--"
BeforeProperty(remainder) ==
  IF LastIndexOf(remainder, <<"-", "-">>) > 1
  THEN Take(remainder, LastIndexOf(remainder, <<"-", "-">>) - 1)
  ELSE <<>>

PropertyPart(remainder) ==
  IF LastIndexOf(remainder, <<"-", "-">>) >= 1
  THEN Drop(remainder, LastIndexOf(remainder, <<"-", "-">>) + 1)
  ELSE remainder

StateOf_Never(propertyPart) == None

\* the state the property part ends with: None, or Some(the first of
\* STATES that is its suffix behind an underscore)
StateOf(propertyPart) ==
  LET I == {i \in 1..Len(STATES) : EndsWith(propertyPart, <<"_">> \o STATES[i])}
  IN IF I = {} THEN None ELSE Some(STATES[Min(I)])

\* the end of the longest match of [a-zA-Z0-9-]+(?:__[a-zA-Z0-9-]+)* that
\* starts at index i of s (i - 1 when there is none)
RECURSIVE ElementsEnd(_, _)
ElementsEnd(s, i) ==
  LET j == RunEnd(s, i, WordChars)
  IN IF j = i THEN i - 1
     ELSE IF /\ j + 1 <= Len(s) /\ s[j] = "_" /\ s[j + 1] = "_"
             /\ ElementsEnd(s, j + 2) >= j + 2
     THEN ElementsEnd(s, j + 2)
     ELSE j - 1

\* s.replace(/__/g, ".")
RECURSIVE UnderscoresToDot(_)
UnderscoresToDot(s) ==
  LET i == IndexOf(s, <<"_", "_">>)
  IN IF i = 0 THEN s ELSE Take(s, i - 1) \o <<".">> \o UnderscoresToDot(Drop(s, i + 1))

\* beforeProperty.match(/__([a-zA-Z0-9-]+(?:__[a-zA-Z0-9-]+)*)/): None, or
\* Some(group 1 with "." for "__")
ElementOf(beforeProperty) ==
  LET I == {i \in 1..(Len(beforeProperty) - 2) :
              /\ beforeProperty[i] = "_"
              /\ beforeProperty[i + 1] = "_"
              /\ beforeProperty[i + 2] \in WordChars}
  IN IF I = {} THEN None
     ELSE Some(UnderscoresToDot(SubSeq(beforeProperty, Min(I) + 2,
                                       ElementsEnd(beforeProperty, Min(I) + 2))))

\* beforeProperty.match(/(?:^|[^_])_([a-zA-Z][a-zA-Z0-9-]*)/): None, or
\* Some(group 1)
VariantOf(beforeProperty) ==
  LET I == {i \in 2..Len(beforeProperty) :
              /\ beforeProperty[i] \in LowerCase \cup UpperCase
              /\ beforeProperty[i - 1] = "_"
              /\ (i = 2 \/ beforeProperty[i - 2] # "_")}
  IN IF I = {} THEN None
     ELSE Some(SubSeq(beforeProperty, Min(I),
                      RunEnd(beforeProperty, Min(I), WordChars) - 1))

CssPropertyOf_KeepState(propertyPart) ==
  IF propertyPart = <<>> THEN <<"u","n","k","n","o","w","n">> ELSE propertyPart

\* the property part without its state suffix, "unknown" when nothing is
\* left
CssPropertyOf(propertyPart) ==
  LET bare == IF StateOf(propertyPart) = None THEN propertyPart
              ELSE Take(propertyPart,
                        Len(propertyPart) - Len(StateOf(propertyPart)[1]) - 1)
  IN IF bare = <<>> THEN <<"u","n","k","n","o","w","n">> ELSE bare

\* the fields parseComponentTokenName gives for the name without its
\* prefix (None stands for null)
DecomposeRemainder(remainder) ==
  [element |-> IF BeforeProperty(remainder) = <<>> THEN None
               ELSE ElementOf(BeforeProperty(remainder)),
   variant |-> IF BeforeProperty(remainder) = <<>> THEN None
               ELSE VariantOf(BeforeProperty(remainder)),
   cssProperty |-> CssPropertyOf(PropertyPart(remainder)),
   state |-> StateOf(PropertyPart(remainder))]

parseComponentTokenName(name, knownComponent) ==
  DecomposeRemainder(StripComponentPrefix(name, knownComponent))

\* /calc\s*\(/.test(s) and /var\s*\(/.test(s), for word "calc" and "var"
HasCall(s, word) ==
  \E i \in 1..Len(s) :
    /\ StartsWith(Drop(s, i - 1), word)
    /\ RunEnd(s, i + Len(word), WhiteSpace) <= Len(s)
    /\ s[RunEnd(s, i + Len(word), WhiteSpace)] = "("

\* /var\(\s*(--[a-zA-Z0-9-]+)/ tried at index i of s
VarRefAt(s, i) ==
  /\ StartsWith(Drop(s, i - 1), <<"v","a","r","(">>)
  /\ StartsWith(Drop(s, RunEnd(s, i + 4, WhiteSpace) - 1), <<"-", "-">>)
  /\ RunEnd(s, RunEnd(s, i + 4, WhiteSpace) + 2, WordChars)
       > RunEnd(s, i + 4, WhiteSpace) + 2

\* group 1 of the match at index i: "--" and the run of [a-zA-Z0-9-] behind
VarRefGroup(s, i) ==
  SubSeq(s, RunEnd(s, i + 4, WhiteSpace),
         RunEnd(s, RunEnd(s, i + 4, WhiteSpace) + 2, WordChars) - 1)

\* s.match(/var\(\s*(--[a-zA-Z0-9-]+)/): None, or Some(group 1) of the
\* leftmost match
FirstVarRef(s) ==
  LET I == {i \in 1..Len(s) : VarRefAt(s, i)}
  IN IF I = {} THEN None ELSE Some(VarRefGroup(s, Min(I)))

\* s.match(/^var\(\s*(--[a-zA-Z0-9-]+)/)
LeadingVarRef(s) == IF VarRefAt(s, 1) THEN Some(VarRefGroup(s, 1)) ELSE None

\* refToken.startsWith("--dsa-") || refToken.startsWith("--l-")
IsComponentRef(refToken) ==
  StartsWith(refToken, <<"-","-","d","s","a","-">>) \/ StartsWith(refToken, <<"-","-","l","-">>)

ReferenceType_Reference(refToken) == "reference"

ReferenceType(refToken) ==
  IF IsComponentRef(refToken) THEN "component-reference" ELSE "global-reference"

\* classifyTokenValue on the trimmed value: calc() with var() first, then
\* a leading var(), then a var() anywhere, else a literal (None stands for
\* null)
ClassifyTrimmed(trimmed) ==
  IF HasCall(trimmed, <<"c","a","l","c">>) /\ HasCall(trimmed, <<"v","a","r">>)
  THEN [valueType |-> "calculated", referencedToken |-> FirstVarRef(trimmed)]
  ELSE IF LeadingVarRef(trimmed) # None
  THEN [valueType |-> ReferenceType(LeadingVarRef(trimmed)[1]),
        referencedToken |-> LeadingVarRef(trimmed)]
  ELSE IF HasCall(trimmed, <<"v","a","r">>) /\ FirstVarRef(trimmed) # None
  THEN [valueType |-> ReferenceType(FirstVarRef(trimmed)[1]),
        referencedToken |-> FirstVarRef(trimmed)]
  ELSE [valueType |-> "literal", referencedToken |-> None]

classifyTokenValue(value) == ClassifyTrimmed(Trim(value))

\* the records parseAllComponentTokens pushes for one source
ComponentRecords(tokens, config) ==
  [i \in 1..Len(tokens) |->
     [name |-> tokens[i].name,
      value |-> tokens[i].data.value,
      valueType |-> classifyTokenValue(tokens[i].data.value).valueType,
      component |-> config.slug,
      element |-> parseComponentTokenName(tokens[i].name, config.slug).element,
      variant |-> parseComponentTokenName(tokens[i].name, config.slug).variant,
      cssProperty |-> parseComponentTokenName(tokens[i].name, config.slug).cssProperty,
      state |-> parseComponentTokenName(tokens[i].name, config.slug).state,
      referencedToken |-> classifyTokenValue(tokens[i].data.value).referencedToken,
      file |-> config.file,
      category |-> config.category,
      section |-> tokens[i].data.section,
      comment |-> tokens[i].data.comment]]

RECURSIVE CollectComponents(_, _, _)
CollectComponents(fs, entries, results) ==
  IF entries = <<>> THEN results
  ELSE LET config == Head(entries)
           filePath == Path(COMPONENT_TOKENS_DIR, config.file)
           tokens == IF fs[filePath] = None THEN <<>>
                     ELSE parseTokenFile(fs, filePath, config.category)
       IN CollectComponents(fs, Tail(entries),
                            results \o ComponentRecords(tokens, config))

parseAllComponentTokens(fs, componentFilter) ==
  LET filesToParse ==
        IF componentFilter = None THEN COMPONENT_TOKEN_FILES
        ELSE SelectSeq(COMPONENT_TOKEN_FILES,
                       LAMBDA c : c.slug = componentFilter[1])
  IN CollectComponents(fs, filesToParse, <<>>)

\* tokenName.startsWith("--") ? tokenName : `--${tokenName}`
NormalizeName(tokenName) ==
  IF StartsWith(tokenName, <<"-", "-">>) THEN tokenName
  ELSE <<"-", "-">> \o tokenName

\* ------------------------------------------------------------------------
\* The validation engine
\* ------------------------------------------------------------------------

UpperSeq == <<"A","B","C","D","E","F","G","H","I","J","K","L","M",
              "N","O","P","Q","R","S","T","U","V","W","X","Y","Z">>
LowerSeq == <<"a","b","c","d","e","f","g","h","i","j","k","l","m",
              "n","o","p","q","r","s","t","u","v","w","x","y","z">>

ToLowerChar(c) ==
  IF c \in UpperCase
  THEN LowerSeq[CHOOSE i \in 1..Len(UpperSeq) : UpperSeq[i] = c]
  ELSE c

ToLowerCase(s) == [i \in 1..Len(s) |-> ToLowerChar(s[i])]

\* s.replace(p, r) for a literal pattern: the first occurrence only
ReplaceFirst(s, p, r) ==
  LET i == IndexOf(s, p)
  IN IF i = 0 THEN s ELSE Take(s, i - 1) \o r \o Drop(s, i + Len(p) - 1)

\* s.replace(/-/g, " ")
DashesToSpaces(s) == [i \in 1..Len(s) |-> IF s[i] = "-" THEN " " ELSE s[i]]

\* s.replace(/-(a1|a2|...).*/, ""): cut at the leftmost "-" an alternative
\* follows
CutAtSuffix(s, alts) ==
  LET I == {i \in 1..Len(s) :
              /\ s[i] = "-"
              /\ \E a \in alts : StartsWith(Drop(s, i), a)}
  IN IF I = {} THEN s ELSE Take(s, Min(I) - 1)

validateTokenExistence_GlobalOnly(globalTokens, componentTokens, tokenName) ==
  MapHas(globalTokens, NormalizeName(tokenName))

\* validateTokenExistence on the parsed registries: the global tokens, then
\* the component tokens
validateTokenExistence(globalTokens, componentTokens, tokenName) ==
  LET normalized == NormalizeName(tokenName)
  IN \/ MapHas(globalTokens, normalized)
     \/ \E i \in 1..Len(componentTokens) : componentTokens[i].name = normalized

extractTypographyCategory(tokenName) ==
  IF Includes(tokenName, <<"-","d","i","s","p","l","a","y">>) THEN Some("display")
  ELSE IF Includes(tokenName, <<"-","c","o","p","y">>) THEN Some("copy")
  ELSE IF Includes(tokenName, <<"-","i","n","t","e","r","f","a","c","e">>) THEN Some("interface")
  ELSE IF Includes(tokenName, <<"-","m","o","n","o">>) THEN Some("mono")
  ELSE None

primitivePatterns ==
  << <<"-","-","k","s","-","c","o","l","o","r","-","p","r","i","m","a","r","y","-","a","l","p","h","a","-">>,
     <<"-","-","k","s","-","c","o","l","o","r","-","p","r","i","m","a","r","y","-","t","o","-">>,
     <<"-","-","k","s","-","c","o","l","o","r","-","p","r","i","m","a","r","y","-","i","n","v","e","r","t","e","d","-","a","l","p","h","a","-">>,
     <<"-","-","k","s","-","c","o","l","o","r","-","p","r","i","m","a","r","y","-","i","n","v","e","r","t","e","d","-","t","o","-">>,
     <<"-","-","k","s","-","c","o","l","o","r","-","f","g","-","a","l","p","h","a","-">>,
     <<"-","-","k","s","-","c","o","l","o","r","-","f","g","-","t","o","-">>,
     <<"-","-","k","s","-","c","o","l","o","r","-","f","g","-","i","n","v","e","r","t","e","d","-">>,
     <<"-","-","k","s","-","c","o","l","o","r","-","b","g","-","i","n","v","e","r","t","e","d">>,
     <<"-","-","k","s","-","c","o","l","o","r","-","l","i","n","k","-","t","o","-">>,
     <<"-","-","k","s","-","c","o","l","o","r","-","l","i","n","k","-","i","n","v","e","r","t","e","d","-","t","o","-">>,
     <<"-","-","k","s","-","c","o","l","o","r","-","p","o","s","i","t","i","v","e","-","a","l","p","h","a","-">>,
     <<"-","-","k","s","-","c","o","l","o","r","-","p","o","s","i","t","i","v","e","-","t","o","-">>,
     <<"-","-","k","s","-","c","o","l","o","r","-","n","e","g","a","t","i","v","e","-","a","l","p","h","a","-">>,
     <<"-","-","k","s","-","c","o","l","o","r","-","n","e","g","a","t","i","v","e","-","t","o","-">>,
     <<"-","-","k","s","-","c","o","l","o","r","-","n","o","t","i","c","e","-","a","l","p","h","a","-">>,
     <<"-","-","k","s","-","c","o","l","o","r","-","n","o","t","i","c","e","-","t","o","-">>,
     <<"-","-","k","s","-","c","o","l","o","r","-","i","n","f","o","r","m","a","t","i","v","e","-","a","l","p","h","a","-">>,
     <<"-","-","k","s","-","c","o","l","o","r","-","i","n","f","o","r","m","a","t","i","v","e","-","t","o","-">> >>

isPrimitiveColorToken(tokenName) ==
  \E i \in 1..Len(primitivePatterns) : StartsWith(tokenName, primitivePatterns[i])

HexChars == Digits \cup {"a","b","c","d","e","f","A","B","C","D","E","F"}

AllIn(s, cs) == \A i \in 1..Len(s) : s[i] \in cs

\* /^\d+(\.\d+)?$/
IsNumber(s) ==
  LET d == IndexOf(s, <<".">>)
  IN IF d = 0 THEN Len(s) >= 1 /\ AllIn(s, Digits)
     ELSE /\ d >= 2
          /\ d < Len(s)
          /\ AllIn(Take(s, d - 1), Digits)
          /\ AllIn(Drop(s, d), Digits)

\* /^\d+(\.\d+)?(u1|u2|...)$/
IsNumberWithUnit(s, units) ==
  \E u \in units : EndsWith(s, u) /\ IsNumber(Take(s, Len(s) - Len(u)))

ColorProperties ==
  {<<"c","o","l","o","r">>, <<"b","a","c","k","g","r","o","u","n","d","-","c","o","l","o","r">>, <<"b","o","r","d","e","r","-","c","o","l","o","r">>}

SpacingProperties ==
  {<<"p","a","d","d","i","n","g">>,
   <<"m","a","r","g","i","n">>,
   <<"g","a","p">>,
   <<"p","a","d","d","i","n","g","-","t","o","p">>,
   <<"p","a","d","d","i","n","g","-","b","o","t","t","o","m">>,
   <<"p","a","d","d","i","n","g","-","l","e","f","t">>,
   <<"p","a","d","d","i","n","g","-","r","i","g","h","t">>,
   <<"m","a","r","g","i","n","-","t","o","p">>,
   <<"m","a","r","g","i","n","-","b","o","t","t","o","m">>,
   <<"m","a","r","g","i","n","-","l","e","f","t">>,
   <<"m","a","r","g","i","n","-","r","i","g","h","t">>}

NotHardcoded == [isHardcoded |-> FALSE, category |-> None]
Hardcoded(category) == [isHardcoded |-> TRUE, category |-> Some(category)]

\* detectHardcodedValue(value, cssProperty), value None for null
detectHardcodedValue(value, cssProperty) ==
  IF value = None \/ value[1] = <<>> \/ Includes(value[1], <<"v","a","r","(">>)
  THEN NotHardcoded
  ELSE LET trimmed == Trim(value[1])
       IN IF /\ cssProperty \in ColorProperties
             /\ \/ /\ StartsWith(trimmed, <<"#">>)
                   /\ Len(trimmed) - 1 \in 3..8
                   /\ AllIn(Tail(trimmed), HexChars)
                \/ StartsWith(trimmed, <<"r","g","b","(">>)
                \/ StartsWith(trimmed, <<"r","g","b","a","(">>)
                \/ StartsWith(trimmed, <<"h","s","l","(">>)
                \/ StartsWith(trimmed, <<"h","s","l","a","(">>)
          THEN Hardcoded("hardcoded-color")
          ELSE IF /\ cssProperty \in SpacingProperties
                  /\ IsNumberWithUnit(trimmed, {<<"p","x">>, <<"r","e","m">>, <<"e","m">>})
          THEN Hardcoded("hardcoded-spacing")
          ELSE IF /\ cssProperty = <<"b","o","r","d","e","r","-","r","a","d","i","u","s">>
                  /\ IsNumberWithUnit(trimmed, {<<"p","x">>, <<"r","e","m">>, <<"e","m">>, <<"%">>})
          THEN Hardcoded("hardcoded-border-radius")
          ELSE IF /\ cssProperty = <<"f","o","n","t","-","w","e","i","g","h","t">>
                  /\ Len(trimmed) = 3
                  /\ AllIn(trimmed, Digits)
          THEN Hardcoded("hardcoded-font-weight")
          ELSE IF /\ cssProperty = <<"b","o","x","-","s","h","a","d","o","w">>
                  /\ ~Includes(trimmed, <<"v","a","r","(">>)
                  /\ trimmed # <<"n","o","n","e">>
          THEN Hardcoded("hardcoded-box-shadow")
          ELSE NotHardcoded

\* rules.find((r) => r.id === id): None, or Some(the first such rule)
FindRule(rules, id) ==
  LET I == {i \in 1..Len(rules) : rules[i].id = id}
  IN IF I = {} THEN None ELSE Some(rules[Min(I)])

\* rule.tokens?.[name]: None, or Some(the token's configuration)
TokenConfig(rule, name) ==
  IF rule.tokens = None THEN None ELSE MapGet(rule.tokens[1], name)

\* the stemmer of the text-color check:
\* s.replace(/s$/, "").replace(/ing$/, "").replace(/line$/, "line")
stem(s) ==
  LET s1 == IF EndsWith(s, <<"s">>) THEN Take(s, Len(s) - 1) ELSE s
  IN IF EndsWith(s1, <<"i", "n", "g">>) THEN Take(s1, Len(s1) - 3) ELSE s1

\* the fuzzy match of one context of a rule against the usage's context
FuzzyMatch(allContext, ctx) ==
  LET ctxNorm == DashesToSpaces(ToLowerCase(ctx))
      words == Split(ctxNorm, " ")
  IN \/ Includes(allContext, ctxNorm)
     \/ \E i \in 1..Len(words) : Includes(allContext, stem(words[i]))

\* the plain match of the background-color and font-family checks
PlainMatch(allContext, ctx) ==
  Includes(allContext, DashesToSpaces(ToLowerCase(ctx)))

\* contexts?.some(...) with the match of the text-color check, contexts
\* None for undefined
SomeFuzzy(contexts, allContext) ==
  /\ contexts # None
  /\ \E i \in 1..Len(contexts[1]) : FuzzyMatch(allContext, contexts[1][i])

\* contexts?.some(...) with the match of the background and font-family
\* checks
SomePlain(contexts, allContext) ==
  /\ contexts # None
  /\ \E i \in 1..Len(contexts[1]) : PlainMatch(allContext, contexts[1][i])

\* `${element.toLowerCase()} ${(designContext || "").toLowerCase()}`
JoinContext(element, designContext) ==
  ToLowerCase(element) \o <<" ">> \o
  ToLowerCase(IF designContext = None THEN <<>> ELSE designContext[1])

Violation(severity, ruleId, ruleName, token, alternatives) ==
  [severity |-> severity, ruleId |-> ruleId, ruleName |-> ruleName,
   token |-> token, alternatives |-> alternatives]

HardcodedCheck_Warning(cssProperty, rawValue) ==
  IF detectHardcodedValue(rawValue, cssProperty).isHardcoded
  THEN <<Violation("warning", "hardcoded-value", "Hardcoded Value Detection",
                   rawValue[1], <<>>)>>
  ELSE <<>>

\* 1. hardcoded value detection (reached with a raw value and no token)
HardcodedCheck(cssProperty, rawValue) ==
  IF detectHardcodedValue(rawValue, cssProperty).isHardcoded
  THEN <<Violation("critical", "hardcoded-value", "Hardcoded Value Detection",
                   rawValue[1], <<>>)>>
  ELSE <<>>

\* 2. the violation of a token that does not exist
PhantomViolation(tokenName) ==
  Violation("critical", "token-existence", "Phantom Token Detection",
            tokenName, <<>>)

\* 3. semantic layer check
SemanticLayerCheck(tokenName, rules) ==
  IF isPrimitiveColorToken(tokenName)
  THEN LET semanticRule == FindRule(rules, "color-semantic-layer")
       IN <<Violation("warning", "color-semantic-layer",
                      IF semanticRule # None THEN semanticRule[1].name
                      ELSE "Use Semantic Color Tokens",
                      tokenName, <<>>)>>
  ELSE <<>>

\* 4. text-color hierarchy check
TextColorCheck(tokenName, element, designContext, rules) ==
  LET textColorRule == FindRule(rules, "text-color-hierarchy")
  IN IF textColorRule # None /\ StartsWith(tokenName, <<"-","-","k","s","-","t","e","x","t","-","c","o","l","o","r","-">>)
     THEN LET baseTokenName ==
                CutAtSuffix(ReplaceFirst(tokenName, <<"-","i","n","v","e","r","t","e","d">>, <<>>),
                            {<<"i","n","t","e","r","a","c","t","i","v","e">>, <<"h","o","v","e","r">>, <<"a","c","t","i","v","e">>, <<"s","e","l","e","c","t","e","d">>, <<"b","a","s","e">>})
              tokenConfig == TokenConfig(textColorRule[1], baseTokenName)
          IN IF tokenConfig # None /\ element # None
             THEN LET allContext == Trim(JoinContext(element[1], designContext))
                      tokens == textColorRule[1].tokens[1]
                      valid == SelectSeq(tokens,
                                 LAMBDA e : SomeFuzzy(e.data.validContexts, allContext))
                  IN IF SomeFuzzy(tokenConfig[1].invalidContexts, allContext)
                     THEN <<Violation("warning", "text-color-hierarchy",
                                      textColorRule[1].name, tokenName,
                                      [i \in 1..Len(valid) |-> valid[i].name])>>
                     ELSE <<>>
             ELSE <<>>
     ELSE <<>>

\* 5. background-color layer check
BackgroundColorCheck(tokenName, element, designContext, rules) ==
  LET bgRule == FindRule(rules, "background-color-layers")
  IN IF bgRule # None /\ StartsWith(tokenName, <<"-","-","k","s","-","b","a","c","k","g","r","o","u","n","d","-","c","o","l","o","r","-">>)
     THEN LET baseTokenName ==
                CutAtSuffix(ReplaceFirst(tokenName, <<"-","i","n","v","e","r","t","e","d">>, <<>>),
                            {<<"i","n","t","e","r","a","c","t","i","v","e">>, <<"h","o","v","e","r">>, <<"a","c","t","i","v","e">>, <<"s","e","l","e","c","t","e","d">>, <<"d","i","s","a","b","l","e","d">>, <<"b","a","s","e">>, <<"t","r","a","n","s","l","u","c","e","n","t">>})
              tokenConfig == TokenConfig(bgRule[1], baseTokenName)
          IN IF tokenConfig # None /\ element # None
             THEN LET allContext == Trim(JoinContext(element[1], designContext))
                  IN IF SomePlain(tokenConfig[1].invalidContexts, allContext)
                     THEN <<Violation("info", "background-color-layers",
                                      bgRule[1].name, tokenName, <<>>)>>
                     ELSE <<>>
             ELSE <<>>
     ELSE <<>>

\* 6. font-family role check
FontFamilyCheck(tokenName, element, designContext, rules) ==
  LET fontFamilyRule == FindRule(rules, "font-family-roles")
  IN IF fontFamilyRule # None /\ StartsWith(tokenName, <<"-","-","k","s","-","f","o","n","t","-","f","a","m","i","l","y","-">>)
     THEN LET tokenConfig == TokenConfig(fontFamilyRule[1], tokenName)
          IN IF tokenConfig # None /\ element # None
             THEN LET allContext == JoinContext(element[1], designContext)
                  IN IF SomePlain(tokenConfig[1].invalidContexts, allContext)
                     THEN <<Violation("warning", "font-family-roles",
                                      fontFamilyRule[1].name, tokenName, <<>>)>>
                     ELSE <<>>
             ELSE <<>>
     ELSE <<>>

\* steps 3 to 7 of validateSingleTokenUsage, in order (step 7, the
\* typography pairing check of a single usage, pushes nothing): the
\* violations, and the checks run
IntentChecks(tokenName, element, designContext, rules) ==
  [violations |->
     SemanticLayerCheck(tokenName, rules) \o
     TextColorCheck(tokenName, element, designContext, rules) \o
     BackgroundColorCheck(tokenName, element, designContext, rules) \o
     FontFamilyCheck(tokenName, element, designContext, rules),
   checks |-> <<"color-semantic-layer", "text-color-hierarchy",
                "background-color-layers", "font-family-roles",
                "typography-pairing">>]

AfterPhantom_GoesOn(tokenName, element, designContext, rules) ==
  IntentChecks(tokenName, element, designContext, rules)

\* the return after the phantom-token violation
AfterPhantom(tokenName, element, designContext, rules) ==
  [violations |-> <<>>, checks |-> <<>>]

\* validateSingleTokenUsage: tokenName, element, designContext and rawValue
\* are None for null; exists is the answer of validateTokenExistence.
\* Returns the violations and, beside them, the checks that were run.
validateSingleTokenUsage(tokenName, cssProperty, element, designContext, rawValue, rules, exists) ==
  IF rawValue # None /\ tokenName = None
  THEN [violations |-> HardcodedCheck(cssProperty, rawValue),
        checks |-> <<"hardcoded-value">>]
  ELSE IF tokenName = None
  THEN [violations |-> <<>>, checks |-> <<>>]
  ELSE IF ~exists
  THEN LET rest == AfterPhantom(tokenName[1], element, designContext, rules)
       IN [violations |-> <<PhantomViolation(tokenName[1])>> \o rest.violations,
           checks |-> <<"token-existence">> \o rest.checks]
  ELSE LET rest == IntentChecks(tokenName[1], element, designContext, rules)
       IN [violations |-> rest.violations,
           checks |-> <<"token-existence">> \o rest.checks]

\* usage.x || null: an empty string counts as absent
OrNull(x) == IF x # None /\ x[1] = <<>> THEN None ELSE x

\* the slot of typoCategories[element] a css property is stored in
TypoSlot(prop) ==
  IF Includes(prop, <<"f","o","n","t","-","s","i","z","e">>) THEN Some("fontSize")
  ELSE IF Includes(prop, <<"l","i","n","e","-","h","e","i","g","h","t">>) THEN Some("lineHeight")
  ELSE IF Includes(prop, <<"f","o","n","t","-","f","a","m","i","l","y">>) THEN Some("fontFamily")
  ELSE None

\* the first loop of the cross-usage pass, from usage i on: typoCategories,
\* a map from the element key to the map from slot to {token, category}
\* (with the position of the usage in the batch beside them)
RECURSIVE TypoCategories(_, _, _)
TypoCategories(tokenUsages, i, typo) ==
  IF i > Len(tokenUsages) THEN typo
  ELSE LET usage == tokenUsages[i]
           token == OrNull(usage.token)
           cat == IF token = None THEN None
                  ELSE extractTypographyCategory(token[1])
       IN IF cat = None THEN TypoCategories(tokenUsages, i + 1, typo)
          ELSE LET key == IF OrNull(usage.element) = None
                          THEN <<"_","r","o","o","t">>
                          ELSE usage.element[1]
                   old == MapGet(typo, key)
                   cats == IF old = None THEN <<>> ELSE old[1]
                   slot == TypoSlot(usage.cssProperty)
                   entry == [token |-> token[1], category |-> cat[1], index |-> i]
                   cats1 == IF slot = None THEN cats
                            ELSE MapSet(cats, slot[1], entry)
               IN TypoCategories(tokenUsages, i + 1, MapSet(typo, key, cats1))

\* the second loop of the cross-usage pass: one warning for each element
\* whose slots hold more than one category
PairingViolations(typo, typoPairingRule) ==
  LET Mixed(e) == Cardinality({e.data[j].data.category : j \in 1..Len(e.data)}) > 1
      mixed == SelectSeq(typo, Mixed)
  IN [k \in 1..Len(mixed) |->
        LET cats == mixed[k].data
        IN [severity |-> "warning",
            ruleId |-> "typography-pairing",
            ruleName |-> IF typoPairingRule.name # "" THEN typoPairingRule.name
                         ELSE "Typography Category Pairing",
            token |-> Join([j \in 1..Len(cats) |-> cats[j].data.token], <<",", " ">>),
            alternatives |-> <<>>,
            usages |-> {cats[j].data.index : j \in 1..Len(cats)}]]

CountSeverity(violations, severity) ==
  Cardinality({i \in 1..Len(violations) : violations[i].severity = severity})

\* allViolations.push(...violations) and the count of clean usages, for the
\* answer res of validateSingleTokenUsage to usage i; perUsage keeps res,
\* and each violation carries the positions of the usages it is about
PushUsage(acc, i, res) ==
  [allViolations |->
     acc.allViolations \o
       [j \in 1..Len(res.violations) |->
          [severity |-> res.violations[j].severity,
           ruleId |-> res.violations[j].ruleId,
           ruleName |-> res.violations[j].ruleName,
           token |-> res.violations[j].token,
           alternatives |-> res.violations[j].alternatives,
           usages |-> {i}]],
   cleanCount |-> IF Len(res.violations) = 0 THEN acc.cleanCount + 1
                  ELSE acc.cleanCount,
   perUsage |-> Append(acc.perUsage, res)]

\* the loop of validateTokenUsages over the usages, from usage i on
RECURSIVE ValidateEach(_, _, _, _, _, _, _)
ValidateEach(designContext, tokenUsages, rules, globalTokens, componentTokens, i, acc) ==
  IF i > Len(tokenUsages) THEN acc
  ELSE LET usage == tokenUsages[i]
           tokenName == OrNull(usage.token)
           exists == /\ tokenName # None
                     /\ validateTokenExistence(globalTokens, componentTokens,
                                               tokenName[1])
       IN ValidateEach(designContext, tokenUsages, rules, globalTokens,
                       componentTokens, i + 1,
                       PushUsage(acc, i,
                         validateSingleTokenUsage(
                           tokenName, usage.cssProperty, OrNull(usage.element),
                           OrNull(designContext), OrNull(usage.value), rules,
                           exists)))

\* the cross-usage pass: the typography pairing warnings are pushed after
\* the violations of the single usages
CrossUsage(tokenUsages, rules, acc) ==
  LET typoPairingRule == FindRule(rules, "typography-pairing")
  IN IF typoPairingRule = None THEN acc
     ELSE [acc EXCEPT !.allViolations =
             @ \o PairingViolations(TypoCategories(tokenUsages, 1, <<>>),
                                    typoPairingRule[1])]

\* the value validateTokenUsages returns, with the usages it was given and
\* what the loop kept for each of them
ValidationResult(designContext, tokenUsages, acc) ==
  [ok |-> TRUE,
   designContext |-> IF OrNull(designContext) = None
                     THEN <<"u","n","s","p","e","c","i","f","i","e","d">>
                     ELSE designContext[1],
   tokenUsages |-> tokenUsages,
   totalUsages |-> Len(tokenUsages),
   violations |-> acc.allViolations,
   summary |-> [critical |-> CountSeverity(acc.allViolations, "critical"),
                warning |-> CountSeverity(acc.allViolations, "warning"),
                info |-> CountSeverity(acc.allViolations, "info"),
                clean |-> acc.cleanCount],
   perUsage |-> acc.perUsage]

\* validateTokenUsages on the rules loaded and the registries parsed
validateTokenUsages(designContext, tokenUsages, rules, globalTokens, componentTokens) ==
  ValidationResult(designContext, tokenUsages,
    CrossUsage(tokenUsages, rules,
      ValidateEach(designContext, tokenUsages, rules, globalTokens,
                   componentTokens, 1,
                   [allViolations |-> <<>>, cleanCount |-> 0,
                    perUsage |-> <<>>])))

\* ------------------------------------------------------------------------
\* recommendTokenForContext
\* ------------------------------------------------------------------------

\* rec.f of a JSON object: None when the object has no field f, else the
\* field, which the model holds as None or Some(value)
Opt(rec, f) == IF f \in DOMAIN rec THEN rec[f] ELSE None

\* the id of the rule that applies to a CSS property: None, or Some(id)
RuleIdFor(cssProperty) ==
  IF cssProperty = <<"c","o","l","o","r">> THEN Some("text-color-hierarchy")
  ELSE IF cssProperty = <<"b","a","c","k","g","r","o","u","n","d","-","c","o","l","o","r">> THEN Some("background-color-layers")
  ELSE IF cssProperty = <<"f","o","n","t","-","f","a","m","i","l","y">> THEN Some("font-family-roles")
  ELSE IF cssProperty = <<"b","o","x","-","s","h","a","d","o","w">> THEN Some("elevation-hierarchy")
  ELSE IF cssProperty = <<"b","o","r","d","e","r","-","r","a","d","i","u","s">> THEN Some("border-radius-scale")
  ELSE IF cssProperty \in {<<"p","a","d","d","i","n","g">>, <<"m","a","r","g","i","n">>, <<"g","a","p">>}
  THEN Some("spacing-scale")
  ELSE IF cssProperty = <<"t","r","a","n","s","i","t","i","o","n">> THEN Some("transition-consistency")
  ELSE None

\* applicableRules: empty, or the one rule found for the property
ApplicableRules(cssProperty, rules) ==
  IF RuleIdFor(cssProperty) = None THEN <<>>
  ELSE FindRule(rules, RuleIdFor(cssProperty)[1])

\* the candidates of a rule in the order the two loops visit them: the
\* levels of its scale, then the entries of its tokens map
ScaleCandidates(rule) ==
  IF Opt(rule, "scale") = None THEN <<>>
  ELSE [i \in 1..Len(rule.scale[1]) |->
          [kind |-> "scale", token |-> rule.scale[1][i].token,
           config |-> rule.scale[1][i]]]

TokenCandidates(rule) ==
  IF Opt(rule, "tokens") = None THEN <<>>
  ELSE [i \in 1..Len(rule.tokens[1]) |->
          [kind |-> "tokens", token |-> rule.tokens[1][i].name,
           config |-> rule.tokens[1][i].data]]

\* allContext.includes(ctx.toLowerCase().replace(/-/g, " ")) for some ctx
MatchesValid(c, allContext) == SomePlain(Opt(c.config, "validContexts"), allContext)
MatchesInvalid(c, allContext) == SomePlain(Opt(c.config, "invalidContexts"), allContext)

\* tokenName.replace(/(--ks-[a-z-]+)/, "$1-inverted"): the marker goes
\* behind the first run of small letters and hyphens that follows "--ks-"
InsertInverted(tokenName) ==
  LET I == {i \in 1..Len(tokenName) :
              /\ StartsWith(Drop(tokenName, i - 1), <<"-","-","k","s","-">>)
              /\ RunEnd(tokenName, i + 5, LowerCase \cup {"-"}) > i + 5}
  IN IF I = {} THEN tokenName
     ELSE Take(tokenName, RunEnd(tokenName, Min(I) + 5, LowerCase \cup {"-"}) - 1)
          \o <<"-","i","n","v","e","r","t","e","d">>
          \o Drop(tokenName, RunEnd(tokenName, Min(I) + 5, LowerCase \cup {"-"}) - 1)

ResolvedToken(c, options) ==
  IF c.kind = "tokens" /\ options.inverted
     /\ ~Includes(c.token, <<"-","i","n","v","e","r","t","e","d">>)
  THEN InsertInverted(c.token)
  ELSE c.token

\* rule.pairingRules?.find(...) and the pairWith list made of it: None, or
\* Some(the list)
PairWith(rule, tokenName) ==
  IF Opt(rule, "pairingRules") = None THEN None
  ELSE LET ps == rule.pairingRules[1]
           I == {i \in 1..Len(ps) :
                   \/ Opt(ps[i], "token") = Some(tokenName)
                   \/ Opt(ps[i], "fontFamily") = Some(tokenName)}
       IN IF I = {} THEN None
          ELSE Some(
            (IF Opt(ps[Min(I)], "expectedFontFamily") = None THEN <<>>
             ELSE <<[cssProperty |-> <<"f","o","n","t","-","f","a","m","i","l","y">>,
                     token |-> ps[Min(I)].expectedFontFamily[1]]>>)
            \o (IF Opt(ps[Min(I)], "expectedLineHeight") = None THEN <<>>
                ELSE <<[cssProperty |-> <<"l","i","n","e","-","h","e","i","g","h","t">>,
                        pattern |-> ps[Min(I)].expectedLineHeight[1]]>>)
            \o (IF Opt(ps[Min(I)], "expectedFontSize") = None THEN <<>>
                ELSE <<[cssProperty |-> <<"f","o","n","t","-","s","i","z","e">>,
                        pattern |-> ps[Min(I)].expectedFontSize[1]]>>)
            \o (IF Opt(ps[Min(I)], "expectedTextColor") = None THEN <<>>
                ELSE <<[cssProperty |-> <<"c","o","l","o","r">>,
                        token |-> ps[Min(I)].expectedTextColor[1]]>>))

\* the interactiveStates of a recommendation: None, or Some(the states)
InteractiveStates(c, options) ==
  IF ~options.interactive THEN None
  ELSE IF c.kind = "tokens"
  THEN Some([base |-> Some(ResolvedToken(c, options) \o <<"-","i","n","t","e","r","a","c","t","i","v","e">>),
             hover |-> Some(ResolvedToken(c, options) \o <<"-","i","n","t","e","r","a","c","t","i","v","e","-","h","o","v","e","r">>),
             active |-> Some(ResolvedToken(c, options) \o <<"-","i","n","t","e","r","a","c","t","i","v","e","-","a","c","t","i","v","e">>)])
  ELSE IF Opt(c.config, "hoverToken") # None
  THEN Some([base |-> None, hover |-> c.config.hoverToken, active |-> None])
  ELSE None

\* the rationale of a candidate: config.role, or level.label for a level
Rationale(c) ==
  IF c.kind = "tokens" THEN Opt(c.config, "role") ELSE Opt(c.config, "label")

\* the recommendation made of a matching candidate, with its rank
HighRec(rule, c, options, rank) ==
  [rank |-> rank, token |-> ResolvedToken(c, options), confidence |-> "high",
   rationale |-> Rationale(c),
   pairWith |-> IF c.kind = "tokens" THEN PairWith(rule, c.token) ELSE None,
   interactiveStates |-> InteractiveStates(c, options)]

LowRec(c, rank) ==
  [rank |-> rank, token |-> c.token, confidence |-> "low",
   rationale |-> Rationale(c), pairWith |-> None, interactiveStates |-> None]

Fallback_Empty(rule) == <<>>

\* the full hierarchy of a rule at low confidence: the entries of the
\* tokens map, then the levels of the scale
Fallback(rule) ==
  [i \in 1..Len(TokenCandidates(rule) \o ScaleCandidates(rule)) |->
     LowRec((TokenCandidates(rule) \o ScaleCandidates(rule))[i], i)]

\* the recommendations and the avoid list of the first two loops for the
\* candidates cs
Recommended(rule, cs, allContext, options) ==
  LET good == SelectSeq(cs, LAMBDA c : MatchesValid(c, allContext)
                                       /\ ~MatchesInvalid(c, allContext))
  IN [i \in 1..Len(good) |-> HighRec(rule, good[i], options, i)]

Avoided(cs, allContext) ==
  LET bad == SelectSeq(cs, LAMBDA c : MatchesInvalid(c, allContext))
  IN [i \in 1..Len(bad) |-> [token |-> bad[i].token, reason |-> Rationale(bad[i])]]

\* designContext || "unspecified"
OrUnspecified(designContext) ==
  IF designContext = None \/ designContext[1] = <<>>
  THEN <<"u","n","s","p","e","c","i","f","i","e","d">>
  ELSE designContext[1]

\* recommendTokenForContext once the rules are loaded
recommendTokenForContext(cssProperty, element, designContext, options, rules) ==
  LET applicableRules == ApplicableRules(cssProperty, rules)
      allContext == JoinContext(element, designContext)
  IN IF applicableRules = <<>>
     THEN [ok |-> TRUE, cssProperty |-> cssProperty, element |-> element,
           designContext |-> OrUnspecified(designContext),
           recommendations |-> <<>>, avoid |-> <<>>]
     ELSE \* applicableRules holds one rule
       LET rule == applicableRules[1]
           cs == ScaleCandidates(rule) \o TokenCandidates(rule)
           recs == Recommended(rule, cs, allContext, options)
       IN [ok |-> TRUE, cssProperty |-> cssProperty, element |-> element,
           designContext |-> OrUnspecified(designContext),
           recommendations |-> IF recs = <<>> THEN Fallback(rule) ELSE recs,
           avoid |-> Avoided(cs, allContext)]

\* new RegExp(`(${escapedName}\\s*:\\s*)([^;]+)(;)`) tried at index i of
\* content: None, or Some([last, semi]) with group 1 ending at last and
\* the semicolon at semi.  The white space after the colon goes to group
\* 1, but for its last character when the semicolon follows at once
UpdateMatchAt(content, i, name) ==
  IF ~StartsWith(Drop(content, i - 1), name) THEN None
  ELSE LET k == RunEnd(content, i + Len(name), WhiteSpace)
       IN IF k > Len(content) \/ content[k] # ":" THEN None
          ELSE LET m == RunEnd(content, k + 1, WhiteSpace)
                   semis == {e \in m..Len(content) : content[e] = ";"}
               IN IF semis = {} THEN None
                  ELSE IF Min(semis) > m THEN Some([last |-> m - 1, semi |-> Min(semis)])
                  ELSE IF m > k + 1 THEN Some([last |-> m - 2, semi |-> m])
                  ELSE None

\* tokenRegex.test(content)
UpdateTest(content, name) ==
  \E i \in 1..Len(content) : UpdateMatchAt(content, i, name) # None

\* the number a decimal digit stands for
DigitValue(c) ==
  CHOOSE n \in 0..9 : <<"0","1","2","3","4","5","6","7","8","9">>[n + 1] = c

\* what String.prototype.replace puts in place of a match for the
\* replacement template: "$$" is a dollar sign, "$&" the match, "$`" and
\* "$'" the content before and after it, "$n" and "$nn" capture n or nn
\* (two digits that exceed the number of captures are read as one digit
\* and a literal digit), and every other text is itself
RECURSIVE GetSubstitution(_, _)
GetSubstitution(template, m) ==
  IF template = <<>> THEN <<>>
  ELSE IF template[1] # "$" \/ Len(template) = 1
  THEN <<template[1]>> \o GetSubstitution(Tail(template), m)
  ELSE IF template[2] = "$" THEN <<"$">> \o GetSubstitution(Drop(template, 2), m)
  ELSE IF template[2] = "&" THEN m.matched \o GetSubstitution(Drop(template, 2), m)
  ELSE IF template[2] = "`" THEN m.before \o GetSubstitution(Drop(template, 2), m)
  ELSE IF template[2] = "'" THEN m.after \o GetSubstitution(Drop(template, 2), m)
  ELSE IF template[2] \in Digits
  THEN LET two == Len(template) >= 3 /\ template[3] \in Digits
           digitCount == IF /\ two
                            /\ 10 * DigitValue(template[2]) + DigitValue(template[3])
                                 <= Len(m.captures)
                         THEN 2 ELSE 1
           index == IF digitCount = 2
                    THEN 10 * DigitValue(template[2]) + DigitValue(template[3])
                    ELSE DigitValue(template[2])
       IN (IF index \in 1..Len(m.captures) THEN m.captures[index]
           ELSE Take(template, 1 + digitCount))
          \o GetSubstitution(Drop(template, 1 + digitCount), m)
  ELSE <<"$">> \o GetSubstitution(Tail(template), m)

\* content.replace(new RegExp(..., "g"), `$1${newValue}$3`) from index i
\* on: the matches are replaced from left to right, the search going on
\* after the semicolon of each
RECURSIVE UpdateReplace(_, _, _, _)
UpdateReplace(content, i, name, newValue) ==
  LET I == {j \in i..Len(content) : UpdateMatchAt(content, j, name) # None}
  IN IF I = {} THEN SubSeq(content, i, Len(content))
     ELSE SubSeq(content, i, Min(I) - 1)
          \o GetSubstitution(
               <<"$", "1">> \o newValue \o <<"$", "3">>,
               [matched |-> SubSeq(content, Min(I),
                                   UpdateMatchAt(content, Min(I), name)[1].semi),
                before |-> Take(content, Min(I) - 1),
                after |-> Drop(content, UpdateMatchAt(content, Min(I), name)[1].semi),
                captures |->
                  << SubSeq(content, Min(I), UpdateMatchAt(content, Min(I), name)[1].last),
                     SubSeq(content, UpdateMatchAt(content, Min(I), name)[1].last + 1,
                            UpdateMatchAt(content, Min(I), name)[1].semi - 1),
                     <<";">> >>])
          \o UpdateReplace(content, UpdateMatchAt(content, Min(I), name)[1].semi + 1,
                           name, newValue)

\* the answer of update_token when updateTokenInFile returns
UpdateResult(normalizedName, tokenData, newValue) ==
  [ok |-> TRUE, success |-> TRUE, tokenName |-> normalizedName,
   oldValue |-> tokenData.value, newValue |-> Trim(newValue),
   file |-> tokenData.file, category |-> tokenData.category]

\* the characters in the order localeCompare ranks them at its first
\* level: punctuation, digits, letters (a capital letter ranks with its
\* small letter)
CollationOrder ==
  <<"_", "-", ".", "0", "1", "2", "3", "4", "5", "6", "7", "8", "9">> \o LowerSeq

Rank(c) ==
  LET I == {i \in 1..Len(CollationOrder) : CollationOrder[i] = ToLowerChar(c)}
  IN IF I = {} THEN 0 ELSE Min(I)

\* a.localeCompare(b): -1, 0 or 1.  The first difference of rank decides,
\* then the shorter string comes first, then a small letter comes before
\* its capital
localeCompare(a, b) ==
  LET n == Min({Len(a), Len(b)})
      D == {i \in 1..n : Rank(a[i]) # Rank(b[i])}
      Case == {i \in 1..n : a[i] # b[i]}
  IN IF D # {} THEN (IF Rank(a[Min(D)]) < Rank(b[Min(D)]) THEN -1 ELSE 1)
     ELSE IF Len(a) # Len(b) THEN (IF Len(a) < Len(b) THEN -1 ELSE 1)
     ELSE IF Case = {} THEN 0
     ELSE IF a[Min(Case)] \in LowerCase THEN -1 ELSE 1

\* one step of filteredTokens.sort((a, b) => a.name.localeCompare(b.name)),
\* which is stable: x goes behind the last element that is not greater
InsertByName(sorted, x) ==
  LET I == {i \in 1..Len(sorted) : localeCompare(sorted[i].name, x.name) <= 0}
      at == IF I = {} THEN 0 ELSE Max(I)
  IN Take(sorted, at) \o <<x>> \o Drop(sorted, at)

RECURSIVE SortByNameFrom(_, _, _)
SortByNameFrom(list, i, sorted) ==
  IF i > Len(list) THEN sorted
  ELSE SortByNameFrom(list, i + 1, InsertByName(sorted, list[i]))

SortByName(list) == SortByNameFrom(list, 1, <<>>)

\* the entry list_tokens makes of a global token, and of a component token
\* (None stands for a field the entry does not have)
GlobalEntry(e) ==
  [name |-> e.name, value |-> e.data.value, file |-> e.data.file,
   category |-> e.data.category, section |-> e.data.section,
   comment |-> e.data.comment, source |-> None, component |-> None]

ComponentEntry(ct) ==
  [name |-> ct.name, value |-> ct.value, file |-> ct.file,
   category |-> ct.category, section |-> ct.section, comment |-> ct.comment,
   source |-> Some("component"), component |-> Some(ct.component)]

\* the category filter and the prefix filter of list_tokens on one entry
CategoryFilter(args, token) ==
  args.category = None \/ args.category[1] = <<>>
  \/ Includes(ToLowerCase(token.name), ToLowerCase(args.category[1]))

PrefixFilter(args, token) ==
  args.prefix = None \/ args.prefix[1] = <<>>
  \/ StartsWith(ToLowerCase(token.name), NormalizeName(ToLowerCase(args.prefix[1])))

\* args.limit || 50, args.offset || 0
OrDefault(n, default) == IF n = None \/ n[1] = 0 THEN default ELSE n[1]

Slice_OneMore(list, from, to) == SubSeq(list, from + 1, Min({to + 1, Len(list)}))

\* list.slice(from, to) for 0 <= from <= to
Slice(list, from, to) == SubSeq(list, from + 1, Min({to, Len(list)}))

\* the page of list_tokens and what is reported with it
Paginate(args, sorted) ==
  [totalMatching |-> Len(sorted),
   returned |-> Len(Slice(sorted, OrDefault(args.offset, 0),
                          OrDefault(args.offset, 0) + OrDefault(args.limit, 50))),
   offset |-> OrDefault(args.offset, 0),
   limit |-> OrDefault(args.limit, 50),
   hasMore |-> OrDefault(args.offset, 0) + OrDefault(args.limit, 50) < Len(sorted),
   tokens |-> Slice(sorted, OrDefault(args.offset, 0),
                    OrDefault(args.offset, 0) + OrDefault(args.limit, 50))]

\* the list_tokens handler on the tokens parsed (componentTokens is empty
\* unless includeComponentTokens was asked for)
list_tokens(args, tokens, componentTokens) ==
  Paginate(args,
    SortByName(
      SelectSeq([i \in 1..Len(tokens) |-> GlobalEntry(tokens[i])]
                \o [i \in 1..Len(componentTokens) |-> ComponentEntry(componentTokens[i])],
                LAMBDA token : CategoryFilter(args, token) /\ PrefixFilter(args, token))))

\* the get_token handler on the global tokens parsed: the record found, or
\* the not-found answer with up to five suggestions
get_token(name, tokens) ==
  LET normalizedName == NormalizeName(name)
      tokenData == MapGet(tokens, normalizedName)
      searchTerm == SubSeq(ToLowerCase(normalizedName), 3,
                           Min({15, Len(normalizedName)}))
      similar == SelectSeq(tokens,
                   LAMBDA e : Includes(ToLowerCase(e.name), searchTerm))
  IN IF tokenData = None
     THEN [ok |-> TRUE, found |-> FALSE, requestedToken |-> normalizedName,
           suggestions |-> [i \in 1..Min({5, Len(similar)}) |-> similar[i].name]]
     ELSE [ok |-> TRUE, found |-> TRUE, token |-> normalizedName,
           value |-> tokenData[1].value, file |-> tokenData[1].file,
           category |-> tokenData[1].category,
           section |-> tokenData[1].section, comment |-> tokenData[1].comment]

\* the get_design_rules handler on the rules loaded: an unknown ruleId
\* throws, which the handler's catch turns into an error answer
get_design_rules(args, rules) ==
  IF args.ruleId # None /\ FindRule(rules, args.ruleId[1]) = None
  THEN [ok |-> FALSE, error |-> "Rule not found",
        available |-> [i \in 1..Len(rules) |-> rules[i].id]]
  ELSE LET byId == IF args.ruleId # None
                   THEN <<FindRule(rules, args.ruleId[1])[1]>> ELSE rules
           byCategory == IF args.category # None
                         THEN SelectSeq(byId, LAMBDA r : r.category = args.category[1])
                         ELSE byId
           bySeverity == IF args.severity # None
                         THEN SelectSeq(byCategory, LAMBDA r : r.severity = args.severity[1])
                         ELSE byCategory
       IN [ok |-> TRUE, totalRules |-> Len(bySeverity), rules |-> bySeverity]

\* ------------------------------------------------------------------------
\* get_component_tokens and validate_component_tokens
\* ------------------------------------------------------------------------

\* the keys COMPONENT_TOKEN_FILES answers to without declaring them: the
\* properties an object literal inherits (one of them stands for all)
InheritedKeys == { <<"c","o","n","s","t","r","u","c","t","o","r">> }

\* what COMPONENT_TOKEN_FILES[key] gives for an inherited key: a value
\* that is truthy, and has no file and no category
Inherited == [inherited |-> TRUE]

\* COMPONENT_TOKEN_FILES[key]: None for undefined
ComponentConfig(key) ==
  LET I == {i \in 1..Len(COMPONENT_TOKEN_FILES) : COMPONENT_TOKEN_FILES[i].slug = key}
  IN IF I # {} THEN Some(COMPONENT_TOKEN_FILES[Min(I)])
     ELSE IF key \in InheritedKeys THEN Some(Inherited)
     ELSE None

\* Object.keys(COMPONENT_TOKEN_FILES)
ComponentKeys == [i \in 1..Len(COMPONENT_TOKEN_FILES) |-> COMPONENT_TOKEN_FILES[i].slug]

\* the filter of the suggestions: a key that includes the slug asked for,
\* is included in it, or has a part between dashes that is
SimilarComponent(s, slug) ==
  \/ Includes(s, slug)
  \/ Includes(slug, s)
  \/ \E k \in 1..Len(Split(s, "-")) : Includes(slug, Split(s, "-")[k])

\* [...new Set(list)]: the first occurrence of each element, in order
Unique(list) ==
  LET kept == SelectSeq([i \in 1..Len(list) |->
                           IF \E j \in 1..(i - 1) : list[j] = list[i] THEN None
                           ELSE Some(list[i])],
                        LAMBDA x : x # None)
  IN [i \in 1..Len(kept) |-> kept[i][1]]

\* the element, property and statesOnly filters of get_component_tokens
ElementFilter(args, t) ==
  args.element = None \/ args.element[1] = <<>>
  \/ /\ t.element # None
     /\ t.element[1] # <<>>
     /\ Includes(ToLowerCase(t.element[1]), ToLowerCase(args.element[1]))

PropertyFilter(args, t) ==
  args.property = None \/ args.property[1] = <<>>
  \/ Includes(ToLowerCase(t.cssProperty), ToLowerCase(args.property[1]))

StatesOnlyFilter(args, t) == ~args.statesOnly \/ t.state # None

\* list.filter((t) => t[f]).map((t) => t[f]), made unique
SummaryOf(tokens, f) ==
  Unique([i \in 1..Len(SelectSeq(tokens, LAMBDA t : t[f] # None /\ t[f][1] # <<>>)) |->
            SelectSeq(tokens, LAMBDA t : t[f] # None /\ t[f][1] # <<>>)[i][f][1]])

\* the answer for a component that is declared, on its tokens filtered
ComponentAnswer(args, slug, config, tokens) ==
  [ok |-> TRUE, found |-> TRUE, component |-> slug, file |-> config.file,
   category |-> config.category, totalTokens |-> Len(tokens),
   tokens |-> SortByName(tokens),
   summary |-> [variants |-> SummaryOf(tokens, "variant"),
                elements |-> SummaryOf(tokens, "element"),
                states |-> SummaryOf(tokens, "state"),
                propertyTypes |-> Unique([i \in 1..Len(tokens) |-> tokens[i].cssProperty])]]

\* the answer for a slug that COMPONENT_TOKEN_FILES does not answer to:
\* up to five similar keys, and no suggestions field when there is none
ComponentNotFound(slug) ==
  LET suggestions == Slice(SelectSeq(ComponentKeys,
                                     LAMBDA s : SimilarComponent(s, slug)), 0, 5)
  IN [ok |-> TRUE, found |-> FALSE, component |-> slug,
      suggestions |-> IF Len(suggestions) > 0 THEN Some(suggestions) ELSE None]

\* what the catch of the request handler answers when the case throws
Thrown(message) == [ok |-> FALSE, error |-> message]

\* the get_component_tokens handler on the token files.  For an inherited
\* key parseAllComponentTokens throws: path.join is given config.file,
\* which is undefined
get_component_tokens(args, fs) ==
  IF args.component = None \/ args.component[1] = <<>>
  THEN Thrown("Component name is required")
  ELSE LET slug == ToLowerCase(args.component[1])
           config == ComponentConfig(slug)
       IN IF config = None THEN ComponentNotFound(slug)
          ELSE IF config[1] = Inherited THEN Thrown("TypeError")
          ELSE ComponentAnswer(args, slug, config[1],
                 SelectSeq(parseAllComponentTokens(fs, Some(slug)),
                           LAMBDA t : /\ ElementFilter(args, t)
                                      /\ PropertyFilter(args, t)
                                      /\ StatesOnlyFilter(args, t)))

\* a violation of the audit (None stands for a field it does not have)
AuditViolation(severity, ruleId, ruleName, token, referencedToken) ==
  [severity |-> severity, ruleId |-> ruleId, ruleName |-> ruleName,
   token |-> token, referencedToken |-> referencedToken]

\* the checks of the token a value refers to: that it exists, and that
\* it is not a primitive colour
ReferenceChecks(token, globalTokens, componentTokens) ==
  LET ref == classifyTokenValue(token.value).referencedToken
      dsa == StartsWith(ref[1], <<"-","-","d","s","a","-">>)
  IN IF ref = None THEN <<>>
     ELSE (IF validateTokenExistence(globalTokens, componentTokens, ref[1])
           THEN <<>>
           ELSE << AuditViolation("critical",
                     IF dsa THEN "component-reference-validity" ELSE "token-existence",
                     IF dsa THEN "Component Cross-Reference Validity"
                     ELSE "Phantom Token Detection",
                     token.name, ref) >>)
          \o (IF isPrimitiveColorToken(ref[1])
              THEN << AuditViolation("warning", "color-semantic-layer",
                                     "Use Semantic Color Tokens", token.name, ref) >>
              ELSE <<>>)

\* the check of a literal value that is not empty
AuditHardcoded(token) ==
  IF /\ classifyTokenValue(token.value).valueType = "literal"
     /\ token.value # <<>>
     /\ detectHardcodedValue(Some(token.value), token.cssProperty).isHardcoded
  THEN << AuditViolation("critical", "hardcoded-value", "Hardcoded Value Detection",
                         token.name, None) >>
  ELSE <<>>

\* `${token.variant || "_base"}::${token.cssProperty}`
StateKey(token) ==
  (IF token.variant = None \/ token.variant[1] = <<>>
   THEN <<"_","b","a","s","e">> ELSE token.variant[1])
  \o <<":",":">> \o token.cssProperty

\* stateMap after a token: the entries are in the order their keys were
\* first set, states is a Set, tokens an array
TrackState(stateMap, token) ==
  LET I == {k \in 1..Len(stateMap) : stateMap[k].key = StateKey(token)}
  IN IF token.state = None \/ token.state[1] = <<>> THEN stateMap
     ELSE IF I = {}
     THEN Append(stateMap, [key |-> StateKey(token), states |-> <<token.state[1]>>,
                            tokens |-> <<token.name>>])
     ELSE [stateMap EXCEPT ![Min(I)] =
             [key |-> @.key,
              states |-> Unique(Append(@.states, token.state[1])),
              tokens |-> Append(@.tokens, token.name)]]

\* the loop over the tokens of the component: the violations pushed and
\* the states tracked
RECURSIVE AuditTokens(_, _, _, _, _)
AuditTokens(tokens, i, globalTokens, componentTokens, acc) ==
  IF i > Len(tokens) THEN acc
  ELSE AuditTokens(tokens, i + 1, globalTokens, componentTokens,
         [violations |-> acc.violations
                           \o ReferenceChecks(tokens[i], globalTokens, componentTokens)
                           \o AuditHardcoded(tokens[i]),
          stateMap |-> TrackState(acc.stateMap, tokens[i])])

\* const [, prop] = key.split("::")
KeyProperty(key) ==
  LET i == IndexOf(key, <<":",":">>)
      rest == Drop(key, i + 1)
      j == IndexOf(rest, <<":",":">>)
  IN IF i = 0 THEN None
     ELSE IF j = 0 THEN Some(rest) ELSE Some(Take(rest, j - 1))

\* stateRule.stateGroups?.["color-states"]?.requiredStates || ["hover", "active"]
RequiredStates(stateRule) ==
  LET groups == Opt(stateRule, "stateGroups")
  IN IF \/ groups = None
        \/ "color-states" \notin DOMAIN groups[1]
        \/ Opt(groups[1]["color-states"], "requiredStates") = None
     THEN << <<"h","o","v","e","r">>, <<"a","c","t","i","v","e">> >>
     ELSE Opt(groups[1]["color-states"], "requiredStates")[1]

\* the properties whose interactive states are checked for completeness
ColorStateProperties ==
  { <<"c","o","l","o","r">>,
    <<"b","a","c","k","g","r","o","u","n","d","-","c","o","l","o","r">>,
    <<"b","o","r","d","e","r","-","c","o","l","o","r">> }

\* the states an entry of stateMap lacks, of those the rule requires
MissingStates(stateRule, data) ==
  SelectSeq(RequiredStates(stateRule),
            LAMBDA s : \A k \in 1..Len(data.states) : data.states[k] # s)

\* the interactive state completeness check, entry by entry
RECURSIVE StateCompleteness(_, _, _)
StateCompleteness(stateMap, k, stateRule) ==
  IF k > Len(stateMap) THEN <<>>
  ELSE (IF /\ KeyProperty(stateMap[k].key) # None
           /\ KeyProperty(stateMap[k].key)[1] \in ColorStateProperties
           /\ Len(MissingStates(stateRule, stateMap[k])) > 0
        THEN << AuditViolation("warning", "interactive-state-completeness",
                               stateRule.name,
                               Join(stateMap[k].tokens, <<",", " ">>), None) >>
        ELSE <<>>)
       \o StateCompleteness(stateMap, k + 1, stateRule)

\* severityOrder[severity] ?? 2
SeverityLevel(severity) ==
  IF severity = "critical" THEN 0 ELSE IF severity = "warning" THEN 1 ELSE 2

\* one step of violations.sort by severity, which is stable
InsertBySeverity(sorted, v) ==
  LET I == {i \in 1..Len(sorted) :
              SeverityLevel(sorted[i].severity) <= SeverityLevel(v.severity)}
      at == IF I = {} THEN 0 ELSE Max(I)
  IN Take(sorted, at) \o <<v>> \o Drop(sorted, at)

RECURSIVE SortBySeverityFrom(_, _, _)
SortBySeverityFrom(list, i, sorted) ==
  IF i > Len(list) THEN sorted
  ELSE SortBySeverityFrom(list, i + 1, InsertBySeverity(sorted, list[i]))

SortBySeverity(list) == SortBySeverityFrom(list, 1, <<>>)

\* what auditComponentTokens returns for a component that is declared
AuditResult(componentSlug, config, tokens, violations) ==
  [component |-> componentSlug, file |-> config.file, category |-> config.category,
   totalTokens |-> Len(tokens), totalViolations |-> Len(violations),
   violations |-> violations,
   summary |-> [critical |-> CountSeverity(violations, "critical"),
                warning |-> CountSeverity(violations, "warning"),
                info |-> CountSeverity(violations, "info")]]

\* what auditComponentTokens returns for a slug COMPONENT_TOKEN_FILES
\* does not answer to: an object with an error message and nothing else
AuditNotFound == [error |-> "Component not found"]

\* auditComponentTokens on the tokens of the component, the rules loaded
\* and the registries parsed (none of them is read for a slug that is not
\* found)
auditComponentTokens(componentSlug, tokens, rules, globalTokens, componentTokens) ==
  IF ComponentConfig(componentSlug) = None THEN AuditNotFound ELSE
  LET acc == AuditTokens(tokens, 1, globalTokens, componentTokens,
                         [violations |-> <<>>, stateMap |-> <<>>])
      stateRule == FindRule(rules, "interactive-state-completeness")
  IN AuditResult(componentSlug, ComponentConfig(componentSlug)[1], tokens,
       SortBySeverity(acc.violations
                      \o (IF stateRule = None THEN <<>>
                          ELSE StateCompleteness(acc.stateMap, 1, stateRule[1]))))

\* whether args.severity && args.severity !== "all"
SeverityAsked(args) ==
  args.severity # None /\ args.severity[1] # "" /\ args.severity[1] # "all"

\* the violations the severity filter keeps
AtLeast(violations, severity) ==
  SelectSeq(violations,
            LAMBDA v : SeverityLevel(v.severity) <= SeverityLevel(severity))

\* the rest of the validate_component_tokens handler, on what
\* auditComponentTokens returned: the severity filter reads
\* auditResult.violations, which throws when the result has none
validate_component_tokens(args, auditResult) ==
  IF ~SeverityAsked(args) THEN [ok |-> TRUE, audit |-> auditResult]
  ELSE IF "violations" \notin DOMAIN auditResult THEN Thrown("TypeError")
  ELSE [ok |-> TRUE,
        audit |-> [auditResult EXCEPT
          !.violations = AtLeast(@, args.severity[1]),
          !.summary =
            [critical |-> CountSeverity(AtLeast(auditResult.violations, args.severity[1]), "critical"),
             warning |-> CountSeverity(AtLeast(auditResult.violations, args.severity[1]), "warning"),
             info |-> CountSeverity(AtLeast(auditResult.violations, args.severity[1]), "info"),
             total |-> Len(AtLeast(auditResult.violations, args.severity[1]))]]]

\* ------------------------------------------------------------------------
\* search_tokens and get_token_for_context
\* ------------------------------------------------------------------------

\* args.searchIn || "both"
SearchIn(args) ==
  IF args.searchIn = None \/ args.searchIn[1] = "" THEN "both" ELSE args.searchIn[1]

\* whether the pattern is found in the name, the value or the comment of
\* a token, as far as searchIn has them searched
SearchMatches(name, value, comment, lowerPattern, searchIn) ==
  \/ /\ searchIn \in {"both", "name"}
     /\ Includes(ToLowerCase(name), lowerPattern)
  \/ /\ searchIn \in {"both", "value"}
     /\ Includes(ToLowerCase(value), lowerPattern)
  \/ /\ searchIn = "both"
     /\ comment # None
     /\ comment[1] # <<>>
     /\ Includes(ToLowerCase(comment[1]), lowerPattern)

\* searchTokens on the token map, each result marked as global
searchTokens(tokens, pattern, searchIn) ==
  LET found == SelectSeq(tokens,
                 LAMBDA e : SearchMatches(e.name, e.data.value, e.data.comment,
                                          ToLowerCase(pattern), searchIn))
  IN [i \in 1..Len(found) |-> [GlobalEntry(found[i]) EXCEPT !.source = Some("global")]]

\* the component tokens the handler merges into the results
SearchComponentTokens(componentTokens, pattern, searchIn) ==
  LET found == SelectSeq(componentTokens,
                 LAMBDA ct : SearchMatches(ct.name, ct.value, ct.comment,
                                           ToLowerCase(pattern), searchIn))
  IN [i \in 1..Len(found) |-> ComponentEntry(found[i])]

\* !args.pattern
NoPattern(args) == args.pattern = None \/ args.pattern[1] = <<>>

\* the search_tokens handler on the tokens parsed (none is parsed for a
\* call without a pattern, and componentTokens is empty unless
\* includeComponentTokens was asked for)
search_tokens(args, tokens, componentTokens) ==
  IF NoPattern(args) THEN Thrown("Search pattern is required")
  ELSE LET results == SortByName(
                        searchTokens(tokens, args.pattern[1], SearchIn(args))
                        \o SearchComponentTokens(componentTokens, args.pattern[1],
                                                 SearchIn(args)))
       IN [ok |-> TRUE, pattern |-> args.pattern[1], searchIn |-> SearchIn(args),
           totalMatches |-> Len(results),
           returned |-> Len(Slice(results, 0, OrDefault(args.limit, 50))),
           results |-> Slice(results, 0, OrDefault(args.limit, 50))]

\* the get_token_for_context handler on the rules loaded:
\* recommendTokenForContext calls element.toLowerCase(), which throws for
\* a call without element; a call without cssProperty finds no rule
get_token_for_context(args, rules) ==
  IF args.element = None THEN Thrown("TypeError")
  ELSE recommendTokenForContext(
         IF args.cssProperty = None THEN <<>> ELSE args.cssProperty[1],
         args.element[1], args.designContext,
         [interactive |-> args.interactive, inverted |-> args.inverted], rules)

\* ------------------------------------------------------------------------
\* State
\* ------------------------------------------------------------------------

VARIABLES
  fsys,         \* the token files: Paths -> None (unreadable) or Some(content)
  decls,        \* history: the declarations written to each file, in order
  rulesDir,     \* the rules directory: None (absent) or Some(its files)
  cachedRules,  \* _cachedRules: None for null, or Some(rules)
  task,         \* the tool calls in flight, one for each slot (of a call,
                \* io is history: the file operations it has attempted)
  cacheWrites,  \* history: the number of assignments to _cachedRules
  firstLoaded,  \* history: None, or Some(the rules of the first assignment)
  addable,      \* history: "phantom" once the addable token was reported
                \* as a phantom token, "declared" once it was declared
                \* after that, "unreported" before and after
  parseIn,      \* the text handed to the parser, with how it was built
  parseOut,     \* None, or Some(token map) once the text has been parsed
  pureIn,       \* the arguments handed to a function without side effects
  pureOut,      \* None, or Some(what the function returned for them)
  updated       \* history: for each token name, None or Some(the value of
                \* the last update_token call of that name that succeeded)

vars == <<fsys, decls, rulesDir, cachedRules, task, cacheWrites, firstLoaded,
          addable, parseIn, parseOut, pureIn, pureOut, updated>>

\* the greatest number of usages in a batch, and of tool calls in flight
MaxUsages == 2
NumReq == 2

Slots == 1..NumReq

\* ------------------------------------------------------------------------
\* The token files and the rule documents of the model
\* ------------------------------------------------------------------------

BrandingPath == Path(TOKENS_DIR, "branding-tokens.css")
ColorPath == Path(TOKENS_DIR, "color-token.scss")
ButtonPath == Path(COMPONENT_TOKENS_DIR, "button-tokens.scss")

BrandingContent ==
  <<":","r","o","o","t"," ","{","\n"," "," ","/","/","/"," ","T","y","p","o","g","r","a","p","h","y","\n"," "," ","/","/"," ","d","i","s","p","l","a","y"," ","s","i","z","e","\n"," "," ","-","-","k","s","-","f","o","n","t","-","s","i","z","e","-","d","i","s","p","l","a","y","-","m",":"," ","2","r","e","m",";","\n"," "," ","-","-","k","s","-","l","i","n","e","-","h","e","i","g","h","t","-","c","o","p","y","-","m",":"," ","1",".","5",";","\n"," "," ","-","-","k","s","-","t","e","x","t","-","c","o","l","o","r","-","c","o","p","y",":"," ","r","e","d",";","\n"," "," ","-","-","k","s","-","t","e","x","t","-","c","o","l","o","r","-","c","o","p","y",":"," "," ","b","l","u","e",";","\n","}","\n">>

ColorContent ==
  <<"-","-","k","s","-","f","o","n","t","-","s","i","z","e","-","d","i","s","p","l","a","y","-","m",":"," ","3","r","e","m",";"," ","/","/"," ","f","l","u","i","d","\n","-","-","k","s","-","f","o","n","t","-","s","i","z","e","-","d","i","s","p","l","a","y","-","m",":"," ","4","r","e","m",";","\n">>

ButtonContent ==
  <<"/","*"," ","S","i","z","e","s"," ","*","/","\n","-","-","d","s","a","-","b","u","t","t","o","n","-","-","p","a","d","d","i","n","g",":"," ","0",".","7","5","e","m"," "," ","1",".","5","e","m",";"," ","/","/"," ","d","e","f","a","u","l","t","\n">>

InitFiles ==
  (BrandingPath :> Some(BrandingContent)) @@
  (ColorPath :> Some(ColorContent)) @@
  (ButtonPath :> Some(ButtonContent))

\* the declarations the initial files hold, as written
InitDecls ==
  (BrandingPath :> << [name |-> <<"-","-","k","s","-","f","o","n","t","-","s","i","z","e","-","d","i","s","p","l","a","y","-","m">>, value |-> <<"2","r","e","m">>],
                     [name |-> <<"-","-","k","s","-","l","i","n","e","-","h","e","i","g","h","t","-","c","o","p","y","-","m">>, value |-> <<"1",".","5">>],
                     [name |-> <<"-","-","k","s","-","t","e","x","t","-","c","o","l","o","r","-","c","o","p","y">>, value |-> <<"r","e","d">>],
                     [name |-> <<"-","-","k","s","-","t","e","x","t","-","c","o","l","o","r","-","c","o","p","y">>, value |-> <<"b","l","u","e">>] >>) @@
  (ColorPath :> << [name |-> <<"-","-","k","s","-","f","o","n","t","-","s","i","z","e","-","d","i","s","p","l","a","y","-","m">>, value |-> <<"3","r","e","m">>],
                  [name |-> <<"-","-","k","s","-","f","o","n","t","-","s","i","z","e","-","d","i","s","p","l","a","y","-","m">>, value |-> <<"4","r","e","m">>] >>) @@
  (ButtonPath :> << [name |-> <<"-","-","d","s","a","-","b","u","t","t","o","n","-","-","p","a","d","d","i","n","g">>, value |-> <<"0",".","7","5","e","m"," ","1",".","5","e","m">>] >>)

\* the token an edit of a file may declare, and the value it is given there
AddableToken == <<"-","-","k","s","-","c","o","l","o","r","-","f","g","-","t","o","-","1">>

AddablePaths == {ColorPath, ButtonPath}

AddedValue(path) ==
  IF path = BrandingPath THEN <<"#","b","0","0">>
  ELSE IF path = ColorPath THEN <<"#","c","0","0">>
  ELSE <<"#","d","0","0">>

TextColorRule ==
  [id |-> "text-color-hierarchy", name |-> "Text Color Hierarchy",
   category |-> "hierarchy", severity |-> "warning",
   tokens |-> Some(<<
     [name |-> <<"-","-","k","s","-","t","e","x","t","-","c","o","l","o","r","-","c","o","p","y">>,
      data |-> [validContexts |-> Some(<< <<"p">>, <<"b","o","d","y","-","t","e","x","t">> >>),
                invalidContexts |-> Some(<< <<"h","e","a","d","i","n","g","s">>, <<"n","a","v","i","g","a","t","i","o","n">>, <<"b","u","t","t","o","n","s">> >>)]] >>)]

TypographyPairingRule ==
  [id |-> "typography-pairing", name |-> "Typography Category Pairing",
   category |-> "pairing", severity |-> "warning", tokens |-> None]

\* a file of the rules directory: its name, and the rule its content
\* parses to (None for content that is not JSON)
RuleFile(base, ext, doc) == [base |-> base, ext |-> ext, doc |-> doc]

FullRules ==
  << RuleFile("README", "md", None),
     RuleFile("draft", "json", None),
     RuleFile("text-color-hierarchy", "json", Some(TextColorRule)),
     RuleFile("typography-pairing", "json", Some(TypographyPairingRule)) >>

RuleDirStates == {None, Some(FullRules)}

\* ------------------------------------------------------------------------
\* The inputs of the tool calls
\* ------------------------------------------------------------------------

Usage(token, cssProperty, element, value) ==
  [token |-> token, cssProperty |-> cssProperty, element |-> element,
   value |-> value]

UsagePhantom == Usage(Some(<<"-","-","k","s","-","d","o","e","s","-","n","o","t","-","e","x","i","s","t">>), <<"c","o","l","o","r">>, None, None)
UsageAddable == Usage(Some(AddableToken), <<"c","o","l","o","r">>, None, None)
UsageHardcoded == Usage(None, <<"c","o","l","o","r">>, None, Some(<<"#","f","f","0","0","0","0">>))
UsageKeyword == Usage(None, <<"c","o","l","o","r">>, None, Some(<<"i","n","h","e","r","i","t">>))
UsageTextColor ==
  Usage(Some(<<"-","-","k","s","-","t","e","x","t","-","c","o","l","o","r","-","c","o","p","y">>), <<"c","o","l","o","r">>,
        Some(<<"B","u","t","t","o","n"," ","l","a","b","e","l">>), None)
UsageFontSize ==
  Usage(Some(<<"-","-","k","s","-","f","o","n","t","-","s","i","z","e","-","d","i","s","p","l","a","y","-","m">>), <<"f","o","n","t","-","s","i","z","e">>,
        Some(<<"h","1">>), None)
UsageLineHeight ==
  Usage(Some(<<"-","-","k","s","-","l","i","n","e","-","h","e","i","g","h","t","-","c","o","p","y","-","m">>), <<"l","i","n","e","-","h","e","i","g","h","t">>,
        Some(<<"h","1">>), None)

UsageUniverse ==
  << UsagePhantom, UsageAddable, UsageHardcoded, UsageKeyword, UsageTextColor,
     UsageFontSize, UsageLineHeight >>

\* the usages at the positions S of the universe, in its order
RECURSIVE Pick(_)
Pick(S) ==
  IF S = {} THEN <<>>
  ELSE <<UsageUniverse[Min(S)]>> \o Pick(S \ {Min(S)})

Batches ==
  {Pick(S) : S \in {X \in SUBSET (1..Len(UsageUniverse)) : Cardinality(X) <= MaxUsages}}

DesignContexts == {None}

LookupNames ==
  { AddableToken,
    <<"-","-","k","s","-","t","e","x","t","-","c","o","l","o","r","-","c","o","p","y">>,
    <<"k","s","-","f","o","n","t","-","s","i","z","e","-","d","i","s","p","l","a","y","-","m">>,
    <<"-","-","k","s","-","d","o","e","s","-","n","o","t","-","e","x","i","s","t">>,
    <<"-","-","k","s","-","l","i","n","e","-","h","e","i","g","h","t","-","c","o","p","y","-","m">>,
    <<"-","-","d","s","a","-","b","u","t","t","o","n","-","-","p","a","d","d","i","n","g">>,
    <<"f","o","n","t","-","s","i","z","e">> }

RuleQueries ==
  [ruleId : {None, Some("typography-pairing"), Some("spacing-scale")},
   category : {None, Some("pairing")},
   severity : {None, Some("warning")}]

\* ------------------------------------------------------------------------
\* The tool calls
\* ------------------------------------------------------------------------

NoTask ==
  [pc |-> "idle", kind |-> "none", args |-> <<>>, rules |-> <<>>,
   jsonFiles |-> <<>>, globalTokens |-> <<>>, componentTokens |-> <<>>,
   read |-> <<>>, noRulesDir |-> FALSE, afterFirst |-> FALSE,
   afterAdd |-> FALSE, content |-> None, declsRead |-> <<>>,
   since |-> <<>>, tokens |-> <<>>, io |-> {}, result |-> None]

\* no function has been handed arguments
NoCall == [fn |-> "none"]

\* the token names update_token is called with, none of them updated yet
UpdateNames ==
  { <<"-","-","k","s","-","t","e","x","t","-","c","o","l","o","r","-","c","o","p","y">>,
    <<"-","-","k","s","-","l","i","n","e","-","h","e","i","g","h","t","-","c","o","p","y","-","m">> }

NoUpdates == [n \in UpdateNames |-> None]

Init ==
  /\ fsys = InitFiles
  /\ decls = InitDecls
  /\ rulesDir \in RuleDirStates
  /\ cachedRules = None
  /\ task = [r \in Slots |-> NoTask]
  /\ cacheWrites = 0
  /\ firstLoaded = None
  /\ addable = "unreported"
  /\ parseIn = [content |-> <<>>, decl |-> None]
  /\ parseOut = None
  /\ pureIn = NoCall
  /\ pureOut = None
  /\ updated = NoUpdates

Idle(r) == task[r].pc = "idle"

Call(kind, pc) ==
  [NoTask EXCEPT !.kind = kind, !.pc = pc,
                 !.afterFirst = (firstLoaded # None),
                 !.afterAdd = (addable = "declared")]

envVars == <<fsys, decls, rulesDir>>
cacheVars == <<cachedRules, cacheWrites, firstLoaded>>
monoVars == <<addable>>
parseVars == <<parseIn, parseOut>>
pureVars == <<pureIn, pureOut>>
updVars == <<updated>>

\* a validate_token_usage call arrives: validateTokenUsages first awaits
\* loadDesignRules.  (The arguments of a call are not read before its last
\* step, and are drawn there.)
StartValidate(r) ==
  /\ Idle(r)
  /\ task' = [task EXCEPT ![r] = Call("validate_token_usage", "load")]
  /\ UNCHANGED <<envVars, cacheVars, monoVars, parseVars, pureVars, updVars>>

\* a get_design_rules call arrives
StartGetDesignRules(r) ==
  /\ Idle(r)
  /\ task' = [task EXCEPT ![r] = Call("get_design_rules", "load")]
  /\ UNCHANGED <<envVars, cacheVars, monoVars, parseVars, pureVars, updVars>>

\* a get_token call arrives
StartGetToken(r) ==
  /\ Idle(r)
  /\ task' = [task EXCEPT ![r] = Call("get_token", "parse")]
  /\ UNCHANGED <<envVars, cacheVars, monoVars, parseVars, pureVars, updVars>>

\* _cachedRules = rules, on the way out of loadDesignRules
AssignCache(rules) ==
  /\ cachedRules' = Some(rules)
  /\ cacheWrites' = cacheWrites + 1
  /\ firstLoaded' = IF firstLoaded = None THEN Some(rules) ELSE firstLoaded

\* the tools that call validateTokenExistence, which reads the global and
\* the component tokens
ChecksExistence(kind) ==
  kind \in {"validate_token_usage", "validate_component_tokens"}

\* where a call goes on once loadDesignRules has returned
Loaded(r) == IF ChecksExistence(task[r].kind) THEN "parse" ELSE "run"

\* loadDesignRules up to its first await: the cached rules are returned,
\* or the directory is probed
LoadCheck(r) ==
  /\ task[r].pc = "load"
  /\ IF cachedRules # None
     THEN task' = [task EXCEPT ![r].pc = Loaded(r), ![r].rules = cachedRules[1]]
     ELSE task' = [task EXCEPT ![r].pc = "access", ![r].rules = <<>>]
  /\ UNCHANGED <<envVars, cacheVars, monoVars, parseVars, pureVars, updVars>>

\* await fs.access(RULES_DIR): an absent directory lands in the catch, and
\* the empty rule set is cached
LoadAccess(r) ==
  /\ task[r].pc = "access"
  /\ IF rulesDir = None
     THEN /\ task' = [task EXCEPT ![r].pc = Loaded(r), ![r].noRulesDir = TRUE,
                                  ![r].io = @ \cup {"access"}]
          /\ AssignCache(task[r].rules)
     ELSE /\ task' = [task EXCEPT ![r].pc = "readdir",
                                  ![r].io = @ \cup {"access"}]
          /\ UNCHANGED cacheVars
  /\ UNCHANGED <<envVars, monoVars, parseVars, pureVars, updVars>>

\* files.filter((f) => f.endsWith(".json"))
JsonFiles(files) ==
  LET json == SelectSeq(files, LAMBDA f : f.ext = "json")
  IN [i \in 1..Len(json) |-> json[i].base]

\* await fs.readdir(RULES_DIR)
LoadReaddir(r) ==
  /\ task[r].pc = "readdir"
  /\ IF rulesDir = None \/ JsonFiles(rulesDir[1]) = <<>>
     THEN /\ task' = [task EXCEPT ![r].pc = Loaded(r),
                                  ![r].io = @ \cup {"readdir"}]
          /\ AssignCache(task[r].rules)
     ELSE /\ task' = [task EXCEPT ![r].pc = "readFile",
                                  ![r].jsonFiles = JsonFiles(rulesDir[1]),
                                  ![r].io = @ \cup {"readdir"}]
          /\ UNCHANGED cacheVars
  /\ UNCHANGED <<envVars, monoVars, parseVars, pureVars, updVars>>

\* the rule read from file base of the directory: None when the read or
\* JSON.parse throws, else Some(the rule with its _sourceFile)
ReadRule(dir, base) ==
  IF dir = None THEN None
  ELSE LET I == {i \in 1..Len(dir[1]) :
                   /\ dir[1][i].base = base
                   /\ dir[1][i].ext = "json"}
       IN IF I = {} \/ dir[1][Min(I)].doc = None THEN None
          ELSE Some([id |-> dir[1][Min(I)].doc[1].id,
                     name |-> dir[1][Min(I)].doc[1].name,
                     category |-> dir[1][Min(I)].doc[1].category,
                     severity |-> dir[1][Min(I)].doc[1].severity,
                     tokens |-> dir[1][Min(I)].doc[1].tokens,
                     sourceFile |-> base])

\* await fs.readFile of the next file: its rule is pushed, or the file is
\* skipped; after the last file the rules are cached and returned
LoadReadFile(r) ==
  /\ task[r].pc = "readFile"
  /\ LET rule == ReadRule(rulesDir, Head(task[r].jsonFiles))
         rules == IF rule = None THEN task[r].rules
                  ELSE Append(task[r].rules, rule[1])
         rest == Tail(task[r].jsonFiles)
     IN IF rest = <<>>
        THEN /\ task' = [task EXCEPT ![r].pc = Loaded(r), ![r].rules = rules,
                                     ![r].jsonFiles = rest,
                                     ![r].io = @ \cup {"readFile"}]
             /\ AssignCache(rules)
        ELSE /\ task' = [task EXCEPT ![r].rules = rules, ![r].jsonFiles = rest,
                                     ![r].io = @ \cup {"readFile"}]
             /\ UNCHANGED cacheVars
  /\ UNCHANGED <<envVars, monoVars, parseVars, pureVars, updVars>>

\* history: the declarations a read of the file at path finds now
Readable(path) == IF fsys[path] = None THEN <<>> ELSE decls[path]

\* await parseAllTokens(), and for a validation await
\* parseAllComponentTokens() after it.  validateTokenExistence reads the
\* files anew for each usage that names a token; here they are read once
\* for the call, which so sees one state of the files.  read keeps the
\* declarations the files held when they were read, and since the updates
\* that had succeeded by then
ParseTokens(r) ==
  /\ task[r].pc = "parse"
  /\ task' = [task EXCEPT
       ![r].pc = "run",
       ![r].globalTokens = parseAllTokens(fsys, None),
       ![r].componentTokens =
         IF ChecksExistence(task[r].kind)
         THEN parseAllComponentTokens(fsys, None) ELSE <<>>,
       ![r].since = updated,
       ![r].io = @ \cup {"parse"},
       ![r].read =
         [i \in 1..Len(TOKEN_FILES) |->
            Readable(Path(TOKENS_DIR, TOKEN_FILES[i].file))]
         \o (IF ChecksExistence(task[r].kind)
             THEN [i \in 1..Len(COMPONENT_TOKEN_FILES) |->
                     Readable(Path(COMPONENT_TOKENS_DIR, COMPONENT_TOKEN_FILES[i].file))]
             ELSE <<>>)]
  /\ UNCHANGED <<envVars, cacheVars, monoVars, parseVars, pureVars, updVars>>

\* whether a batch has a usage of the addable token that was answered with
\* the phantom-token violation
ReportsPhantom(res) ==
  \E i \in 1..Len(res.tokenUsages) :
    /\ res.tokenUsages[i].token # None
    /\ NormalizeName(res.tokenUsages[i].token[1]) = AddableToken
    /\ \E k \in 1..Len(res.perUsage[i].violations) :
         res.perUsage[i].violations[k].ruleId = "token-existence"

NamesAddable(tokenUsages) ==
  \E i \in 1..Len(tokenUsages) :
    /\ tokenUsages[i].token # None
    /\ NormalizeName(tokenUsages[i].token[1]) = AddableToken

\* the rest of validateTokenUsages, once the rules are loaded
Validate(r) ==
  /\ task[r].pc = "run"
  /\ task[r].kind = "validate_token_usage"
  /\ \E dc \in DesignContexts, b \in Batches :
     \E res \in {validateTokenUsages(dc, b, task[r].rules,
                                     task[r].globalTokens,
                                     task[r].componentTokens)} :
       /\ task' = [task EXCEPT ![r].pc = "done",
                               ![r].args = [designContext |-> dc,
                                            tokenUsages |-> b],
                               ![r].result = Some(res)]
       /\ addable' = IF ReportsPhantom(res) THEN "phantom"
                     ELSE IF NamesAddable(res.tokenUsages) THEN "unreported"
                     ELSE addable
  /\ UNCHANGED <<envVars, cacheVars, parseVars, pureVars, updVars>>

\* the rest of the get_design_rules handler
GetDesignRules(r) ==
  /\ task[r].pc = "run"
  /\ task[r].kind = "get_design_rules"
  /\ \E q \in RuleQueries :
       task' = [task EXCEPT ![r].pc = "done", ![r].args = q,
                            ![r].result = Some(get_design_rules(q, task[r].rules))]
  /\ UNCHANGED <<envVars, cacheVars, monoVars, parseVars, pureVars, updVars>>

\* the get_token handler
GetToken(r) ==
  /\ task[r].pc = "run"
  /\ task[r].kind = "get_token"
  /\ \E n \in LookupNames :
     \E res \in {get_token(n, task[r].globalTokens)} :
       task' = [task EXCEPT ![r].pc = "done", ![r].args = [name |-> n],
                            ![r].result = Some(res)]
  /\ UNCHANGED <<envVars, cacheVars, monoVars, parseVars, pureVars, updVars>>

\* an update_token call arrives: updateTokenInFile first awaits
\* parseAllTokens()
StartUpdateToken(r) ==
  /\ Idle(r)
  /\ task' = [task EXCEPT ![r] = Call("update_token", "parse")]
  /\ UNCHANGED <<envVars, cacheVars, monoVars, parseVars, pureVars, updVars>>

\* the names and the values update_token is called with
UpdateArgs ==
  [name : UpdateNames \cup {<<"k","s","-","d","o","e","s","-","n","o","t","-","e","x","i","s","t">>},
   value : {<<"2"," "," ","p","x"," ">>}]

\* updateTokenInFile from allTokens.get to await fs.readFile: a token that
\* no file declares, and a file that cannot be read, throw
UpdateRead(r) ==
  /\ task[r].pc = "run"
  /\ task[r].kind = "update_token"
  /\ \E a \in UpdateArgs :
       LET tokenData == MapGet(task[r].globalTokens, NormalizeName(a.name))
       IN IF tokenData = None
          THEN task' = [task EXCEPT ![r].pc = "done", ![r].args = a,
                          ![r].result = Some([ok |-> FALSE, error |-> "not found in any file"])]
          ELSE IF fsys[Path(TOKENS_DIR, tokenData[1].file)] = None
          THEN task' = [task EXCEPT ![r].pc = "done", ![r].args = a,
                          ![r].io = @ \cup {"readFile"},
                          ![r].result = Some([ok |-> FALSE, error |-> "ENOENT"])]
          ELSE task' = [task EXCEPT ![r].pc = "write", ![r].args = a,
                          ![r].io = @ \cup {"readFile"},
                          ![r].content = fsys[Path(TOKENS_DIR, tokenData[1].file)],
                          ![r].declsRead = decls[Path(TOKENS_DIR, tokenData[1].file)]]
  /\ UNCHANGED <<envVars, cacheVars, monoVars, parseVars, pureVars, updVars>>

\* history: the declarations of a file once the value of name is replaced
Redeclared(ds, name, newValue) ==
  [i \in 1..Len(ds) |->
     IF ds[i].name = name THEN [name |-> name, value |-> newValue] ELSE ds[i]]

\* the rest of updateTokenInFile: the content read is tested, the value is
\* replaced in it and await fs.writeFile puts it in place of the file
UpdateWrite(r) ==
  /\ task[r].pc = "write"
  /\ LET normalizedName == NormalizeName(task[r].args.name)
         tokenData == MapGet(task[r].globalTokens, normalizedName)[1]
         filePath == Path(TOKENS_DIR, tokenData.file)
     IN IF ~UpdateTest(task[r].content[1], normalizedName)
        THEN /\ task' = [task EXCEPT ![r].pc = "done",
                            ![r].result = Some([ok |-> FALSE, error |-> "not found in file"])]
             /\ UNCHANGED <<fsys, decls, updated>>
        ELSE /\ \E updatedContent \in {UpdateReplace(task[r].content[1], 1,
                                                     normalizedName, task[r].args.value)} :
                  fsys' = [fsys EXCEPT ![filePath] = Some(updatedContent)]
             /\ decls' = [decls EXCEPT ![filePath] =
                            Redeclared(task[r].declsRead, normalizedName, task[r].args.value)]
             /\ updated' = [updated EXCEPT ![normalizedName] = Some(task[r].args.value)]
             /\ task' = [task EXCEPT ![r].pc = "done",
                            ![r].io = @ \cup {"writeFile"},
                            ![r].result = Some(UpdateResult(normalizedName, tokenData,
                                                            task[r].args.value))]
  /\ UNCHANGED <<rulesDir, cacheVars, monoVars, parseVars, pureVars>>

\* a list_tokens call arrives
StartListTokens(r) ==
  /\ Idle(r)
  /\ task' = [task EXCEPT ![r] = Call("list_tokens", "sources")]
  /\ UNCHANGED <<envVars, cacheVars, monoVars, parseVars, pureVars, updVars>>

\* the greatest limit and offset list_tokens is called with
MaxLimit == 2
MaxOffset == 6

\* what list_tokens is asked to read, and what to give of it
ListSources ==
  [file : {None, Some("color"), Some("unknown")},
   includeComponentTokens : BOOLEAN]

ListFilters ==
  [category : {None, Some(<<"C","o","l","o","r">>)},
   prefix : {None, Some(<<"k","s","-">>)},
   limit : {None} \cup {Some(n) : n \in 1..MaxLimit},
   offset : {None} \cup {Some(n) : n \in 1..MaxOffset}]

\* await parseAllTokens(args.file), and await parseAllComponentTokens()
\* when includeComponentTokens is set
ListParse(r) ==
  /\ task[r].pc = "sources"
  /\ \E a \in ListSources :
       task' = [task EXCEPT
         ![r].pc = "run",
         ![r].args = a,
         ![r].io = @ \cup {"parse"},
         ![r].globalTokens = parseAllTokens(fsys, a.file),
         ![r].componentTokens =
           IF a.includeComponentTokens THEN parseAllComponentTokens(fsys, None)
           ELSE <<>>]
  /\ UNCHANGED <<envVars, cacheVars, monoVars, parseVars, pureVars, updVars>>

\* the rest of the list_tokens handler
ListTokens(r) ==
  /\ task[r].pc = "run"
  /\ task[r].kind = "list_tokens"
  /\ \E f \in ListFilters :
     \E res \in {list_tokens(f, task[r].globalTokens, task[r].componentTokens)} :
       task' = [task EXCEPT ![r].pc = "done",
                            ![r].args = [file |-> task[r].args.file,
                                         includeComponentTokens |->
                                           task[r].args.includeComponentTokens,
                                         category |-> f.category,
                                         prefix |-> f.prefix,
                                         limit |-> f.limit,
                                         offset |-> f.offset],
                            ![r].result = Some(res)]
  /\ UNCHANGED <<envVars, cacheVars, monoVars, parseVars, pureVars, updVars>>

\* the components get_component_tokens and validate_component_tokens are
\* asked for: declared, declared in another case, similar to a declared
\* one, unknown, inherited by COMPONENT_TOKEN_FILES, and none
ComponentNames ==
  { None,
    Some(<<"b","u","t","t","o","n">>),
    Some(<<"B","u","t","t","o","n">>),
    Some(<<"b","u","t","t","o","n","s">>),
    Some(<<"n","o","p","e">>),
    Some(<<"c","o","n","s","t","r","u","c","t","o","r">>) }

ComponentQueries ==
  [component : ComponentNames,
   element : {None, Some(<<"l","a","b","e","l">>)},
   property : {None, Some(<<"P","a","d","d","i","n","g">>)},
   statesOnly : BOOLEAN]

AuditQueries ==
  [component : ComponentNames,
   severity : {None, Some("all"), Some("critical"), Some("warning")}]

\* a get_component_tokens call arrives
StartGetComponentTokens(r) ==
  /\ Idle(r)
  /\ task' = [task EXCEPT ![r] = Call("get_component_tokens", "run")]
  /\ UNCHANGED <<envVars, cacheVars, monoVars, parseVars, pureVars, updVars>>

\* the get_component_tokens handler: the file of the component is read
\* when the component is found
GetComponentTokens(r) ==
  /\ task[r].pc = "run"
  /\ task[r].kind = "get_component_tokens"
  /\ \E q \in ComponentQueries :
     \E res \in {get_component_tokens(q, fsys)} :
       task' = [task EXCEPT ![r].pc = "done", ![r].args = q,
                            ![r].io = IF res.ok /\ res.found THEN @ \cup {"parse"} ELSE @,
                            ![r].result = Some(res)]
  /\ UNCHANGED <<envVars, cacheVars, monoVars, parseVars, pureVars, updVars>>

\* String(args.component), the key COMPONENT_TOKEN_FILES is asked for
AuditSlug(args) ==
  IF args.component = None THEN <<"u","n","d","e","f","i","n","e","d">>
  ELSE args.component[1]

\* a validate_component_tokens call arrives
StartValidateComponent(r) ==
  /\ Idle(r)
  /\ \E q \in AuditQueries :
       task' = [task EXCEPT ![r] =
                  [Call("validate_component_tokens", "tokens") EXCEPT !.args = q]]
  /\ UNCHANGED <<envVars, cacheVars, monoVars, parseVars, pureVars, updVars>>

\* auditComponentTokens up to await loadDesignRules(): a slug that is not
\* found is answered at once, for an inherited key parseAllComponentTokens
\* throws, and the tokens of a component that is declared are read
AuditParse(r) ==
  /\ task[r].pc = "tokens"
  /\ LET config == ComponentConfig(AuditSlug(task[r].args))
     IN IF config = None
        THEN task' = [task EXCEPT
               ![r].pc = "done",
               ![r].result = Some(validate_component_tokens(task[r].args,
                                    auditComponentTokens(AuditSlug(task[r].args),
                                                         <<>>, <<>>, <<>>, <<>>)))]
        ELSE IF config[1] = Inherited
        THEN task' = [task EXCEPT ![r].pc = "done",
                                  ![r].result = Some(Thrown("TypeError"))]
        ELSE task' = [task EXCEPT
               ![r].pc = "load",
               ![r].io = @ \cup {"parse"},
               ![r].tokens = parseAllComponentTokens(fsys, Some(AuditSlug(task[r].args)))]
  /\ UNCHANGED <<envVars, cacheVars, monoVars, parseVars, pureVars, updVars>>

\* the rest of auditComponentTokens, once the rules are loaded, and the
\* severity filter of the handler
ValidateComponent(r) ==
  /\ task[r].pc = "run"
  /\ task[r].kind = "validate_component_tokens"
  /\ \E res \in {validate_component_tokens(task[r].args,
                     auditComponentTokens(AuditSlug(task[r].args), task[r].tokens,
                                          task[r].rules, task[r].globalTokens,
                                          task[r].componentTokens))} :
       task' = [task EXCEPT ![r].pc = "done", ![r].result = Some(res)]
  /\ UNCHANGED <<envVars, cacheVars, monoVars, parseVars, pureVars, updVars>>

\* what search_tokens is asked for
SearchQueries ==
  [pattern : {None, Some(<<>>), Some(<<"C","O","P","Y">>), Some(<<"r","e","m">>)},
   searchIn : {None, Some("name"), Some("value")},
   file : {None, Some("color")},
   includeComponentTokens : BOOLEAN,
   limit : {None, Some(1)}]

\* a search_tokens call arrives
StartSearchTokens(r) ==
  /\ Idle(r)
  /\ task' = [task EXCEPT ![r] = Call("search_tokens", "run")]
  /\ UNCHANGED <<envVars, cacheVars, monoVars, parseVars, pureVars, updVars>>

\* the search_tokens handler: a call without a pattern throws before the
\* files are read
SearchTokens(r) ==
  /\ task[r].pc = "run"
  /\ task[r].kind = "search_tokens"
  /\ \E a \in SearchQueries :
       IF NoPattern(a)
       THEN task' = [task EXCEPT ![r].pc = "done", ![r].args = a,
                                 ![r].result = Some(search_tokens(a, <<>>, <<>>))]
       ELSE \E res \in {search_tokens(a, parseAllTokens(fsys, a.file),
                                       IF a.includeComponentTokens
                                       THEN parseAllComponentTokens(fsys, None)
                                       ELSE <<>>)} :
              task' = [task EXCEPT ![r].pc = "done", ![r].args = a,
                                   ![r].io = @ \cup {"parse"},
                                   ![r].result = Some(res)]
  /\ UNCHANGED <<envVars, cacheVars, monoVars, parseVars, pureVars, updVars>>

\* what get_token_for_context is asked for
ContextQueries ==
  [cssProperty : {None, Some(<<"c","o","l","o","r">>), Some(<<"p","a","d","d","i","n","g">>)},
   element : {None, Some(<<"p">>), Some(<<"f","o","o","t","e","r">>)},
   designContext : {None},
   interactive : BOOLEAN,
   inverted : BOOLEAN]

\* a get_token_for_context call arrives: recommendTokenForContext first
\* awaits loadDesignRules
StartGetTokenForContext(r) ==
  /\ Idle(r)
  /\ task' = [task EXCEPT ![r] = Call("get_token_for_context", "load")]
  /\ UNCHANGED <<envVars, cacheVars, monoVars, parseVars, pureVars, updVars>>

\* the rest of recommendTokenForContext, once the rules are loaded
GetTokenForContext(r) ==
  /\ task[r].pc = "run"
  /\ task[r].kind = "get_token_for_context"
  /\ \E q \in ContextQueries :
     \E res \in {get_token_for_context(q, task[r].rules)} :
       task' = [task EXCEPT ![r].pc = "done", ![r].args = q,
                            ![r].result = Some(res)]
  /\ UNCHANGED <<envVars, cacheVars, monoVars, parseVars, pureVars, updVars>>

\* validateTokenUsages once the rules are loaded, for a call without
\* tokenUsages: the loop over the usages throws before a token is looked
\* up
ValidateNoUsages(r) ==
  /\ task[r].pc = "parse"
  /\ task[r].kind = "validate_token_usage"
  /\ \E dc \in DesignContexts :
       task' = [task EXCEPT ![r].pc = "done",
                            ![r].args = [designContext |-> dc],
                            ![r].result = Some(Thrown("TypeError"))]
  /\ UNCHANGED <<envVars, cacheVars, monoVars, parseVars, pureVars, updVars>>

\* the answer is sent, and the call is over
Return(r) ==
  /\ task[r].pc = "done"
  /\ task' = [task EXCEPT ![r] = NoTask]
  /\ UNCHANGED <<envVars, cacheVars, monoVars, parseVars, pureVars, updVars>>

\* ------------------------------------------------------------------------
\* The environment: edits of the token files and of the rules directory
\* ------------------------------------------------------------------------

Declares(path, name) ==
  \E i \in 1..Len(decls[path]) : decls[path][i].name = name

\* a declaration of the addable token is appended to a file that does not
\* declare it
AddDeclaration ==
  \E path \in AddablePaths :
    /\ fsys[path] # None
    /\ ~Declares(path, AddableToken)
    /\ fsys' = [fsys EXCEPT ![path] =
                  Some(@[1] \o AddableToken \o <<":", " ">> \o AddedValue(path)
                            \o <<";", "\n">>)]
    /\ decls' = [decls EXCEPT ![path] =
                   Append(@, [name |-> AddableToken, value |-> AddedValue(path)])]
    /\ addable' = IF addable = "phantom" THEN "declared" ELSE addable
    /\ UNCHANGED <<rulesDir, cacheVars, task, parseVars, pureVars, updVars>>

\* the files of the global sources that may be lost
LosablePaths == {BrandingPath, ColorPath}

\* a token file is removed, or can no longer be read
LoseSource ==
  \E path \in LosablePaths :
    /\ fsys[path] # None
    /\ fsys' = [fsys EXCEPT ![path] = None]
    /\ UNCHANGED <<decls, rulesDir, cacheVars, task, monoVars, parseVars,
                   pureVars, updVars>>

\* the rules directory is created, removed, or its documents are changed
EditRules ==
  /\ rulesDir' \in RuleDirStates \ {rulesDir}
  /\ UNCHANGED <<fsys, decls, cacheVars, task, monoVars, parseVars, pureVars, updVars>>

\* validate_token_usage calls, one at a time, while the token files and
\* the rules directory are edited
Next ==
  \/ StartValidate(1)
  \/ LoadCheck(1)
  \/ LoadAccess(1)
  \/ LoadReaddir(1)
  \/ LoadReadFile(1)
  \/ ParseTokens(1)
  \/ Validate(1)
  \/ Return(1)
  \/ AddDeclaration
  \/ EditRules

Spec == Init /\ [][Next]_vars

\* get_token calls, one at a time, while the token files are edited and
\* lost
NextLookup ==
  \/ StartGetToken(1)
  \/ ParseTokens(1)
  \/ GetToken(1)
  \/ Return(1)
  \/ AddDeclaration
  \/ LoseSource

SpecLookup == Init /\ [][NextLookup]_vars

\* list_tokens calls, one at a time, while the token files are edited
NextList ==
  \/ StartListTokens(1)
  \/ ListParse(1)
  \/ ListTokens(1)
  \/ Return(1)
  \/ AddDeclaration

SpecList == Init /\ [][NextList]_vars

\* get_token and update_token calls that overlap in time
NextUpdate ==
  \E r \in Slots :
    \/ StartGetToken(r)
    \/ StartUpdateToken(r)
    \/ ParseTokens(r)
    \/ GetToken(r)
    \/ UpdateRead(r)
    \/ UpdateWrite(r)
    \/ Return(r)

SpecUpdate == Init /\ [][NextUpdate]_vars

\* calls of the tools that are given a token, a component or a rule by
\* name, one at a time, while the token files are edited
NextNamed ==
  \/ StartGetToken(1)
  \/ StartGetComponentTokens(1)
  \/ StartValidateComponent(1)
  \/ StartGetDesignRules(1)
  \/ AuditParse(1)
  \/ LoadCheck(1)
  \/ LoadAccess(1)
  \/ LoadReaddir(1)
  \/ LoadReadFile(1)
  \/ ParseTokens(1)
  \/ GetToken(1)
  \/ GetComponentTokens(1)
  \/ ValidateComponent(1)
  \/ GetDesignRules(1)
  \/ Return(1)
  \/ AddDeclaration

SpecNamed == Init /\ [][NextNamed]_vars

\* search_tokens, get_token_for_context and validate_token_usage calls,
\* with and without the arguments they require, one at a time, while the
\* rules directory is edited
NextArgs ==
  \/ StartSearchTokens(1)
  \/ StartGetTokenForContext(1)
  \/ StartValidate(1)
  \/ LoadCheck(1)
  \/ LoadAccess(1)
  \/ LoadReaddir(1)
  \/ LoadReadFile(1)
  \/ ParseTokens(1)
  \/ SearchTokens(1)
  \/ GetTokenForContext(1)
  \/ ValidateNoUsages(1)
  \/ Validate(1)
  \/ Return(1)
  \/ EditRules

SpecArgs == Init /\ [][NextArgs]_vars

\* get_design_rules calls that overlap in time, while the rules directory
\* is edited
NextRules ==
  \/ \E r \in Slots :
       \/ StartGetDesignRules(r)
       \/ LoadCheck(r)
       \/ LoadAccess(r)
       \/ LoadReaddir(r)
       \/ LoadReadFile(r)
       \/ GetDesignRules(r)
       \/ Return(r)
  \/ EditRules

SpecRules == Init /\ [][NextRules]_vars

\* ------------------------------------------------------------------------
\* The parser on bounded texts
\* ------------------------------------------------------------------------

\* the greatest lengths of the name x and of the value v of a line `--x: v;`
MaxNameLen == 2
MaxValueLen == 4

\* the sequences over cs of length 1..n
SeqsUpTo(cs, n) == UNION {[1..k -> cs] : k \in 1..n}

DeclNames == SeqsUpTo({"a", "-"}, MaxNameLen)
DeclValues == SeqsUpTo({"1", " ", "\t", ":"}, MaxValueLen)
DeclGaps == {<<>>, <<" ">>}

\* the line `--x: v;`, with or without white space before the colon
DeclText(d) ==
  <<"-", "-">> \o d.name \o d.gap \o <<":">> \o d.v \o <<";">>

DeclInputs ==
  {[content |-> DeclText(d), decl |-> Some(d)] :
     d \in [name : DeclNames, gap : DeclGaps, v : DeclValues]}

Scenario1Text ==
  <<"/","*"," ","S","i","z","e","s"," ","*","/","\n","-","-","d","s","a","-","b","u","t","t","o","n","-","-","p","a","d","d","i","n","g",":"," ","0",".","7","5","e","m"," "," ","1",".","5","e","m",";"," ","/","/"," ","d","e","f","a","u","l","t","\n">>

ParseInputs == DeclInputs \cup {[content |-> Scenario1Text, decl |-> None]}

InitParse ==
  /\ parseIn \in ParseInputs
  /\ parseOut = None
  /\ fsys = InitFiles
  /\ decls = InitDecls
  /\ rulesDir = None
  /\ cachedRules = None
  /\ task = [r \in Slots |-> NoTask]
  /\ cacheWrites = 0
  /\ firstLoaded = None
  /\ addable = "unreported"
  /\ pureIn = NoCall
  /\ pureOut = None
  /\ updated = NoUpdates

Parse ==
  /\ parseOut = None
  /\ parseOut' = Some(ParseContent(parseIn.content,
                                   <<"t", ".", "c", "s", "s">>,
                                   <<"c">>))
  /\ UNCHANGED <<parseIn, envVars, cacheVars, task, monoVars, pureVars, updVars>>

NextParse == Parse

SpecParse == InitParse /\ [][NextParse]_vars

\* ------------------------------------------------------------------------
\* The parser on bounded sequences of lines
\* ------------------------------------------------------------------------

\* the greatest number of lines of a text
MaxLines == 3

\* the lines the texts are made of, each with what it is when it is read
\* outside a block comment (kind, and label for the text of a section
\* marker or of a comment, name and trail for the token name and the
\* trailing comment of a declaration) and with its text as a line of a
\* block comment (body): two section markers, a comment line, a block
\* comment on one line, three declarations (two of one name, two with a
\* trailing comment), a selector, a brace, the first and the last line of
\* a block comment, and two lines where a block comment opens behind
\* other text (on one line, around a declaration, and to be closed on a
\* later line)
LineKinds ==
  { [kind |-> "section", text |-> <<"/","/","/"," ","A">>,
     label |-> <<"A">>, name |-> <<>>, trail |-> None,
     body |-> <<"/","/","/"," ","A">>],
    [kind |-> "section", text |-> <<" "," ","/","/","/"," ","B">>,
     label |-> <<"B">>, name |-> <<>>, trail |-> None,
     body |-> <<"/","/","/"," ","B">>],
    [kind |-> "comment", text |-> <<"/","/"," ","c">>,
     label |-> <<"c">>, name |-> <<>>, trail |-> None,
     body |-> <<"/","/"," ","c">>],
    [kind |-> "comment", text |-> <<"/","*"," ","e"," ","*","/">>,
     label |-> <<"e">>, name |-> <<>>, trail |-> None,
     body |-> <<"/","*"," ","e">>],
    [kind |-> "decl", text |-> <<"-","-","x",":"," ","1",";">>,
     label |-> <<>>, name |-> <<"-","-","x">>, trail |-> None,
     body |-> <<"-","-","x",":"," ","1",";">>],
    [kind |-> "decl", text |-> <<" "," ","-","-","y",":"," ","2",";"," ","/","/"," ","t">>,
     label |-> <<>>, name |-> <<"-","-","y">>, trail |-> Some(<<"t">>),
     body |-> <<"-","-","y",":"," ","2",";"," ","/","/"," ","t">>],
    [kind |-> "decl", text |-> <<"-","-","x",":"," ","3",";"," ","/","*"," ","u"," ","*","/">>,
     label |-> <<>>, name |-> <<"-","-","x">>, trail |-> Some(<<"u">>),
     body |-> <<"-","-","x",":"," ","3",";"," ","/","*"," ","u">>],
    [kind |-> "selector", text |-> <<":","r","o","o","t"," ","{">>,
     label |-> <<>>, name |-> <<>>, trail |-> None,
     body |-> <<":","r","o","o","t"," ","{">>],
    [kind |-> "inert", text |-> <<"}">>,
     label |-> <<>>, name |-> <<>>, trail |-> None,
     body |-> <<"}">>],
    [kind |-> "open", text |-> <<"/","*"," ","f">>,
     label |-> <<"f">>, name |-> <<>>, trail |-> None,
     body |-> <<"f">>],
    [kind |-> "close", text |-> <<"g"," ","*","/">>,
     label |-> <<"g">>, name |-> <<>>, trail |-> None,
     body |-> <<"g">>],
    [kind |-> "inline", text |-> <<"a"," ","{"," ","/","*"," ","-","-","z",":"," ","4",";"," ","*","/"," ","}">>,
     label |-> <<>>, name |-> <<>>, trail |-> None,
     body |-> <<"a"," ","{"," ","/","*"," ","-","-","z",":"," ","4",";">>],
    [kind |-> "midopen", text |-> <<"b"," ","{"," ","/","*">>,
     label |-> <<>>, name |-> <<>>, trail |-> None,
     body |-> <<"b"," ","{"," ","/","*">>] }

LineInputs ==
  {[content |-> Join([i \in 1..Len(ls) |-> ls[i].text], <<"\n">>),
    decl |-> None, lines |-> ls] :
     ls \in UNION {[1..n -> LineKinds] : n \in 1..MaxLines}}

InitLines ==
  /\ parseIn \in LineInputs
  /\ parseOut = None
  /\ fsys = InitFiles
  /\ decls = InitDecls
  /\ rulesDir = None
  /\ cachedRules = None
  /\ task = [r \in Slots |-> NoTask]
  /\ cacheWrites = 0
  /\ firstLoaded = None
  /\ addable = "unreported"
  /\ pureIn = NoCall
  /\ pureOut = None
  /\ updated = NoUpdates

SpecLines == InitLines /\ [][NextParse]_vars

\* ------------------------------------------------------------------------
\* validateTokenUsages on bounded batches of typography usages
\* ------------------------------------------------------------------------

\* the tokens of the usages with the property each is used for: two font
\* sizes of different categories, a line height and a text color
TypoTokens ==
  { [token |-> <<"-","-","k","s","-","f","o","n","t","-","s","i","z","e","-","d","i","s","p","l","a","y","-","m">>, cssProperty |-> <<"f","o","n","t","-","s","i","z","e">>],
    [token |-> <<"-","-","k","s","-","f","o","n","t","-","s","i","z","e","-","c","o","p","y","-","m">>, cssProperty |-> <<"f","o","n","t","-","s","i","z","e">>],
    [token |-> <<"-","-","k","s","-","l","i","n","e","-","h","e","i","g","h","t","-","c","o","p","y","-","m">>, cssProperty |-> <<"l","i","n","e","-","h","e","i","g","h","t">>],
    [token |-> <<"-","-","k","s","-","t","e","x","t","-","c","o","l","o","r","-","c","o","p","y">>, cssProperty |-> <<"c","o","l","o","r">>] }

\* the elements of the usages: none, an element, and one named as the
\* key of the usages without element
TypoElements == {None, Some(<<"h","1">>), Some(<<"_","r","o","o","t">>)}

TypoUsages ==
  {Usage(Some(t.token), t.cssProperty, e, None) : t \in TypoTokens, e \in TypoElements}

BatchInputs ==
  {[fn |-> "validate", tokenUsages |-> b] :
     b \in UNION {[1..n -> TypoUsages] : n \in 0..MaxUsages}}

InitBatch ==
  /\ pureIn \in BatchInputs
  /\ pureOut = None
  /\ parseIn = [content |-> <<>>, decl |-> None]
  /\ parseOut = None
  /\ updated = NoUpdates
  /\ fsys = InitFiles
  /\ decls = InitDecls
  /\ rulesDir = Some(FullRules)
  /\ cachedRules = None
  /\ task = [r \in Slots |-> NoTask]
  /\ cacheWrites = 0
  /\ firstLoaded = None
  /\ addable = "unreported"

\* the rules loadDesignRules reads from the directory: those of its JSON
\* files that parse, in the order of the directory
RulesOf(dir) ==
  LET read == SelectSeq([i \in 1..Len(JsonFiles(dir[1])) |->
                           ReadRule(dir, JsonFiles(dir[1])[i])],
                        LAMBDA x : x # None)
  IN [i \in 1..Len(read) |-> read[i][1]]

\* a batch is validated with the rules of the directory loaded and the
\* registries parsed from the files
ValidateBatch ==
  /\ pureIn.fn = "validate"
  /\ pureOut = None
  /\ pureOut' = Some(validateTokenUsages(None, pureIn.tokenUsages,
                                         RulesOf(rulesDir),
                                         parseAllTokens(fsys, None),
                                         parseAllComponentTokens(fsys, None)))
  /\ UNCHANGED <<pureIn, parseVars, envVars, cacheVars, task, monoVars, updVars>>

NextBatch == ValidateBatch

SpecBatch == InitBatch /\ [][NextBatch]_vars

\* ------------------------------------------------------------------------
\* The audit of a component on bounded token files
\* ------------------------------------------------------------------------

\* the greatest number of declarations in the component file
MaxDecls == 3

\* the declarations the component file is made of: a color and its hover,
\* active and focus states, the hover state of a variant, a state of a
\* property that is no color (it refers to a token that does not exist),
\* and a state of a border color with a literal value
AuditDecls ==
  << [name |-> <<"-","-","d","s","a","-","b","u","t","t","o","n","-","-","c","o","l","o","r">>,
      value |-> <<"v","a","r","(","-","-","k","s","-","t","e","x","t","-","c","o","l","o","r","-","c","o","p","y",")">>],
     [name |-> <<"-","-","d","s","a","-","b","u","t","t","o","n","-","-","c","o","l","o","r","_","h","o","v","e","r">>,
      value |-> <<"v","a","r","(","-","-","k","s","-","t","e","x","t","-","c","o","l","o","r","-","c","o","p","y",")">>],
     [name |-> <<"-","-","d","s","a","-","b","u","t","t","o","n","-","-","c","o","l","o","r","_","a","c","t","i","v","e">>,
      value |-> <<"v","a","r","(","-","-","k","s","-","t","e","x","t","-","c","o","l","o","r","-","c","o","p","y",")">>],
     [name |-> <<"-","-","d","s","a","-","b","u","t","t","o","n","-","-","c","o","l","o","r","_","f","o","c","u","s">>,
      value |-> <<"v","a","r","(","-","-","k","s","-","t","e","x","t","-","c","o","l","o","r","-","c","o","p","y",")">>],
     [name |-> <<"-","-","d","s","a","-","b","u","t","t","o","n","_","p","r","i","m","a","r","y","-","-","c","o","l","o","r","_","h","o","v","e","r">>,
      value |-> <<"v","a","r","(","-","-","k","s","-","t","e","x","t","-","c","o","l","o","r","-","c","o","p","y",")">>],
     [name |-> <<"-","-","d","s","a","-","b","u","t","t","o","n","-","-","p","a","d","d","i","n","g","_","h","o","v","e","r">>,
      value |-> <<"v","a","r","(","-","-","k","s","-","m","i","s","s","i","n","g",")">>],
     [name |-> <<"-","-","d","s","a","-","b","u","t","t","o","n","-","-","b","o","r","d","e","r","-","c","o","l","o","r","_","h","o","v","e","r">>,
      value |-> <<"#","f","f","0","0","0","0">>] >>

\* the declarations at the positions S, in the order of AuditDecls
RECURSIVE PickDecls(_)
PickDecls(S) ==
  IF S = {} THEN <<>>
  ELSE <<AuditDecls[Min(S)]>> \o PickDecls(S \ {Min(S)})

\* the text of a file with the declarations ds, one on a line
DeclsContent(ds) ==
  Join([i \in 1..Len(ds) |-> ds[i].name \o <<":", " ">> \o ds[i].value \o <<";">>],
       <<"\n">>)

InteractiveStateRule ==
  [id |-> "interactive-state-completeness", name |-> "Interactive State Completeness",
   category |-> "completeness", severity |-> "warning", tokens |-> None]

AuditRuleFiles ==
  FullRules \o << RuleFile("interactive-state-completeness", "json",
                           Some(InteractiveStateRule)) >>

AuditInputs ==
  {[fn |-> "audit", decls |-> PickDecls(S),
    args |-> [component |-> Some(<<"b","u","t","t","o","n">>), severity |-> sev]] :
     S \in {X \in SUBSET (1..Len(AuditDecls)) : Cardinality(X) <= MaxDecls},
     sev \in {None, Some("all"), Some("critical"), Some("warning"), Some("info")}}

InitAudit ==
  /\ pureIn \in AuditInputs
  /\ pureOut = None
  /\ fsys = [InitFiles EXCEPT ![ButtonPath] = Some(DeclsContent(pureIn.decls))]
  /\ decls = [InitDecls EXCEPT ![ButtonPath] = pureIn.decls]
  /\ rulesDir = Some(AuditRuleFiles)
  /\ parseIn = [content |-> <<>>, decl |-> None]
  /\ parseOut = None
  /\ updated = NoUpdates
  /\ cachedRules = None
  /\ task = [r \in Slots |-> NoTask]
  /\ cacheWrites = 0
  /\ firstLoaded = None
  /\ addable = "unreported"

\* validate_component_tokens on the files and the rules of the directory:
\* what auditComponentTokens returns (tokens is what it parses of the
\* component file) after the severity filter of the handler
Audit ==
  /\ pureIn.fn = "audit"
  /\ pureOut = None
  /\ \E tokens \in {parseAllComponentTokens(fsys, Some(AuditSlug(pureIn.args)))} :
       pureOut' = Some([tokens |-> tokens,
                        res |-> validate_component_tokens(pureIn.args,
                                  auditComponentTokens(AuditSlug(pureIn.args), tokens,
                                    RulesOf(rulesDir), parseAllTokens(fsys, None),
                                    parseAllComponentTokens(fsys, None)))])
  /\ UNCHANGED <<pureIn, parseVars, envVars, cacheVars, task, monoVars, updVars>>

NextAudit == Audit

SpecAudit == InitAudit /\ [][NextAudit]_vars

\* ------------------------------------------------------------------------
\* update_token calls one at a time, on bounded values
\* ------------------------------------------------------------------------

\* the greatest length of a new value
MaxNewLen == 2

\* the new values: the texts of a letter, a digit, a quote and a dollar
\* sign, and a value of two lines
\* a value of two lines, of which the second reads as a declaration
TwoLineValue ==
  <<"1",";","\n","-","-","k","s","-","l","i","n","e","-","h","e","i","g","h","t","-","c","o","p","y","-","m",":"," ","9">>

NewValues ==
  UNION {[1..n -> {"a", "1", "'", "$"}] : n \in 0..MaxNewLen} \cup {TwoLineValue}

\* the names: none, the two tokens of one file, a token that two files
\* declare, and one that no file declares
UpdateInputs ==
  [fn : {"update"},
   name : UpdateNames \cup { <<>>,
            <<"k","s","-","f","o","n","t","-","s","i","z","e","-","d","i","s","p","l","a","y","-","m">>,
            <<"k","s","-","d","o","e","s","-","n","o","t","-","e","x","i","s","t">> },
   value : NewValues]

InitFrame ==
  /\ pureIn \in UpdateInputs
  /\ pureOut = None
  /\ fsys = InitFiles
  /\ decls = InitDecls
  /\ rulesDir = None
  /\ parseIn = [content |-> <<>>, decl |-> None]
  /\ parseOut = None
  /\ updated = NoUpdates
  /\ cachedRules = None
  /\ task = [r \in Slots |-> NoTask]
  /\ cacheWrites = 0
  /\ firstLoaded = None
  /\ addable = "unreported"

\* one update_token call from its arrival to its answer, no other call
\* in flight: the files before the call are kept beside the answer
UpdateToken ==
  /\ pureIn.fn = "update"
  /\ pureOut = None
  /\ LET normalizedName == NormalizeName(pureIn.name)
         tokenData == MapGet(parseAllTokens(fsys, None), normalizedName)
         filePath == Path(TOKENS_DIR, tokenData[1].file)
     IN IF pureIn.name = <<>>
        THEN /\ pureOut' = Some([before |-> fsys,
                                 res |-> Thrown("Token name is required")])
             /\ UNCHANGED <<fsys, decls, updated>>
        ELSE IF tokenData = None
        THEN /\ pureOut' = Some([before |-> fsys,
                                 res |-> Thrown("not found in any file")])
             /\ UNCHANGED <<fsys, decls, updated>>
        ELSE IF fsys[filePath] = None \/ ~UpdateTest(fsys[filePath][1], normalizedName)
        THEN /\ pureOut' = Some([before |-> fsys, res |-> Thrown("not found in file")])
             /\ UNCHANGED <<fsys, decls, updated>>
        ELSE /\ \E updatedContent \in {UpdateReplace(fsys[filePath][1], 1,
                                                     normalizedName, pureIn.value)} :
                  fsys' = [fsys EXCEPT ![filePath] = Some(updatedContent)]
             /\ decls' = [decls EXCEPT ![filePath] =
                            Redeclared(@, normalizedName, pureIn.value)]
             /\ updated' = IF normalizedName \in UpdateNames
                           THEN [updated EXCEPT ![normalizedName] = Some(pureIn.value)]
                           ELSE updated
             /\ pureOut' = Some([before |-> fsys,
                                 res |-> UpdateResult(normalizedName, tokenData[1],
                                                      pureIn.value)])
  /\ UNCHANGED <<pureIn, parseVars, rulesDir, cacheVars, task, monoVars>>

NextFrame == UpdateToken

SpecFrame == InitFrame /\ [][NextFrame]_vars

\* ------------------------------------------------------------------------
\* The name decomposer, the value classifier and the recommender on
\* bounded arguments
\* ------------------------------------------------------------------------

\* the greatest number of nested elements of a token name
MaxElements == 2

NamePrefixes == {<<"-","-","d","s","a","-">>, <<"-","-","l","-">>}
ComponentSlugs == {<<"b","u","t","t","o","n">>, <<"t","e","a","s","e","r","-","c","a","r","d">>}
ElementWords == {<<"c","o","p","y">>, <<"i","c","o","n","-","2">>}
VariantWords == {<<"p","r","i","m","a","r","y">>, <<"c","o","l","o","r","-","n","e","u","t","r","a","l">>}
PropertyWords == {<<"c","o","l","o","r">>, <<"b","a","c","k","g","r","o","u","n","d","-","c","o","l","o","r">>, <<"h","o","v","e","r">>, <<"f","o","n","t","_","f","o","c","u","s">>}
StateWords == {<<"h","o","v","e","r">>, <<"o","p","e","n">>}

\* the names of the grammar
\* PREFIX-{component}[__{element}]*[_{variant}]--{cssProperty}[_{state}],
\* by their parts
DecomposeInputs ==
  [fn : {"decompose"},
   prefix : NamePrefixes,
   component : ComponentSlugs,
   elements : UNION {[1..n -> ElementWords] : n \in 0..MaxElements},
   variant : {None} \cup {Some(v) : v \in VariantWords},
   cssProperty : PropertyWords,
   state : {None} \cup {Some(x) : x \in StateWords}]

\* "__" before each element
RECURSIVE ElementsText(_)
ElementsText(elements) ==
  IF elements = <<>> THEN <<>>
  ELSE <<"_", "_">> \o Head(elements) \o ElementsText(Tail(elements))

\* the name of the grammar with the given parts
GrammarName(prefix, component, elements, variant, cssProperty, state) ==
  prefix \o component \o ElementsText(elements)
    \o (IF variant = None THEN <<>> ELSE <<"_">> \o variant[1])
    \o <<"-", "-">> \o cssProperty
    \o (IF state = None THEN <<>> ELSE <<"_">> \o state[1])

\* the name of the grammar built from the fields of a decomposition
Recompose(prefix, component, d) ==
  GrammarName(prefix, component,
              IF d.element = None THEN <<>> ELSE Split(d.element[1], "."),
              d.variant, d.cssProperty, d.state)

\* the values of the form var(identifier) and calc(var(identifier) * 0.5)
\* by their identifier, and other values
Identifiers ==
  {<<"-","-","k","s","-","s","p","a","c","i","n","g","-","m">>, <<"-","-","k","s","-","s","p","a","c","i","n","g","-","x","x","s">>, <<"-","-","l","-","g","r","i","d","-","g","a","p">>, <<"-","-","d","s","a","-","b","u","t","t","o","n","_","p","r","i","m","a","r","y","-","-","c","o","l","o","r">>}

ValueOfShape(shape, ident) ==
  IF shape = "var" THEN <<"v","a","r","(">> \o ident \o <<")">>
  ELSE <<"c","a","l","c","(","v","a","r","(">> \o ident \o <<")"," ","*"," ","0",".","5",")">>

OtherValues ==
  {<<"1",".","5","e","m">>,
   <<"c","a","l","c","(","1","0","0","%"," ","-"," ","2","p","x",")">>,
   <<"0"," ","v","a","r","(","-","-","k","s","-","a",")"," ","v","a","r","(","-","-","d","s","a","-","b",")">>,
   <<" ","v","a","r","("," ","-","-","k","s","-","a",","," ","4","p","x",")"," ">>,
   <<"v","a","r"," ","(","-","-","k","s","-","a",")">>,
   <<"c","a","l","c"," ","(","v","a","r"," ","(","-","-","k","s","-","a",")",")">>,
   <<"c","a","l","c","(","v","a","r","(","-","-","_","g","a","p",")"," ","*"," ","2",")">>,
   <<"c","a","l","c","(","v","a","r","(","x",")"," ","+"," ","v","a","r","(","-","-","k","s","-","b",")",")">>,
   <<"s","o","l","i","d"," ","v","a","r","(","-","-","d","s","a","-","b",")">>,
   <<"V","A","R","(","-","-","k","s","-","a",")">>,
   <<>>}

ClassifyInputs ==
  {[fn |-> "classify", shape |-> sh, ident |-> id, value |-> ValueOfShape(sh, id)] :
     sh \in {"var", "calc"}, id \in Identifiers}
  \cup {[fn |-> "classify", shape |-> "other", ident |-> <<>>, value |-> v] :
          v \in OtherValues}

\* the text-color rule with two of its tokens and their pairing rules,
\* and the elevation rule, whose levels here also name contexts
RecommendTextRule ==
  [id |-> "text-color-hierarchy", name |-> "Text-Color Semantic Hierarchy",
   category |-> "semantic-hierarchy", severity |-> "warning",
   tokens |-> Some(<<
     [name |-> <<"-","-","k","s","-","t","e","x","t","-","c","o","l","o","r","-","d","i","s","p","l","a","y">>,
      data |-> [role |-> Some("Display headings and hero text"),
                validContexts |-> Some(<< <<"h","1">>, <<"h","e","r","o","-","h","e","a","d","l","i","n","e">> >>),
                invalidContexts |-> Some(<< <<"b","o","d","y","-","c","o","p","y">>, <<"c","a","p","t","i","o","n","s">> >>)]],
     [name |-> <<"-","-","k","s","-","t","e","x","t","-","c","o","l","o","r","-","c","o","p","y">>,
      data |-> [role |-> Some("Body copy, paragraph text, descriptions, long-form content"),
                validContexts |-> Some(<< <<"p">>, <<"b","o","d","y","-","t","e","x","t">>, <<"c","a","p","t","i","o","n","s">> >>),
                invalidContexts |-> Some(<< <<"h","e","a","d","i","n","g","s">>, <<"n","a","v","i","g","a","t","i","o","n">>, <<"b","u","t","t","o","n","s">> >>)]] >>),
   pairingRules |-> Some(<<
     [token |-> Some(<<"-","-","k","s","-","t","e","x","t","-","c","o","l","o","r","-","d","i","s","p","l","a","y">>),
      expectedFontFamily |-> Some(<<"-","-","k","s","-","f","o","n","t","-","f","a","m","i","l","y","-","d","i","s","p","l","a","y">>),
      expectedLineHeight |-> Some(<<"-","-","k","s","-","l","i","n","e","-","h","e","i","g","h","t","-","d","i","s","p","l","a","y","-","*">>)],
     [token |-> Some(<<"-","-","k","s","-","t","e","x","t","-","c","o","l","o","r","-","c","o","p","y">>),
      expectedFontFamily |-> Some(<<"-","-","k","s","-","f","o","n","t","-","f","a","m","i","l","y","-","c","o","p","y">>),
      expectedLineHeight |-> Some(<<"-","-","k","s","-","l","i","n","e","-","h","e","i","g","h","t","-","c","o","p","y","-","*">>)] >>)]

ElevationRule ==
  [id |-> "elevation-hierarchy", name |-> "Elevation Scale",
   category |-> "hierarchy", severity |-> "info",
   scale |-> Some(<<
     [token |-> <<"-","-","k","s","-","b","o","x","-","s","h","a","d","o","w","-","c","o","n","t","r","o","l">>, label |-> Some("Control"),
      purpose |-> Some("Form inputs, small interactive elements")],
     [token |-> <<"-","-","k","s","-","b","o","x","-","s","h","a","d","o","w","-","c","a","r","d">>, label |-> Some("Card"),
      purpose |-> Some("Cards, teasers, elevated content blocks"),
      validContexts |-> Some(<< <<"c","a","r","d">>, <<"t","e","a","s","e","r">> >>),
      hoverToken |-> Some(<<"-","-","k","s","-","b","o","x","-","s","h","a","d","o","w","-","c","a","r","d","-","h","o","v","e","r">>)],
     [token |-> <<"-","-","k","s","-","b","o","x","-","s","h","a","d","o","w","-","s","u","r","f","a","c","e">>, label |-> Some("Surface"),
      purpose |-> Some("Modals, flyouts, overlays, prominent floating elements"),
      validContexts |-> Some(<< <<"m","o","d","a","l">>, <<"c","a","r","d">> >>),
      invalidContexts |-> Some(<< <<"c","a","r","d">> >>)] >>)]

RecommendInputs ==
  [fn : {"recommend"},
   cssProperty : {<<"c","o","l","o","r">>, <<"b","o","x","-","s","h","a","d","o","w">>, <<"w","i","d","t","h">>},
   element : {<<"h","1">>, <<"p">>, <<"C","a","r","d">>, <<"h","e","a","d","i","n","g","s">>, <<"f","o","o","t","e","r">>},
   designContext : {None, Some(<<"C","a","p","t","i","o","n","s">>)},
   options : [interactive : BOOLEAN, inverted : BOOLEAN],
   rules : {<<>>, <<RecommendTextRule, ElevationRule>>}]

PureInputs == DecomposeInputs \cup ClassifyInputs \cup RecommendInputs

InitPure ==
  /\ pureIn \in PureInputs
  /\ pureOut = None
  /\ parseIn = [content |-> <<>>, decl |-> None]
  /\ parseOut = None
  /\ updated = NoUpdates
  /\ fsys = InitFiles
  /\ decls = InitDecls
  /\ rulesDir = None
  /\ cachedRules = None
  /\ task = [r \in Slots |-> NoTask]
  /\ cacheWrites = 0
  /\ firstLoaded = None
  /\ addable = "unreported"

\* a name is decomposed, recomposed from the fields found, and decomposed
\* again
Decompose ==
  /\ pureIn.fn = "decompose"
  /\ pureOut = None
  /\ \E name \in {GrammarName(pureIn.prefix, pureIn.component, pureIn.elements,
                               pureIn.variant, pureIn.cssProperty, pureIn.state)} :
     \E first \in {parseComponentTokenName(name, pureIn.component)} :
     \E rebuilt \in {Recompose(pureIn.prefix, pureIn.component, first)} :
       pureOut' = Some([name |-> name, first |-> first, rebuilt |-> rebuilt,
                        second |-> parseComponentTokenName(rebuilt, pureIn.component)])
  /\ UNCHANGED <<pureIn, parseVars, envVars, cacheVars, task, monoVars, updVars>>

\* a value is classified
Classify ==
  /\ pureIn.fn = "classify"
  /\ pureOut = None
  /\ pureOut' = Some(classifyTokenValue(pureIn.value))
  /\ UNCHANGED <<pureIn, parseVars, envVars, cacheVars, task, monoVars, updVars>>

\* tokens are recommended for a context, with the rules given
Recommend ==
  /\ pureIn.fn = "recommend"
  /\ pureOut = None
  /\ pureOut' = Some(recommendTokenForContext(pureIn.cssProperty, pureIn.element,
                                               pureIn.designContext, pureIn.options,
                                               pureIn.rules))
  /\ UNCHANGED <<pureIn, parseVars, envVars, cacheVars, task, monoVars, updVars>>

NextPure ==
  \/ Decompose
  \/ Classify
  \/ Recommend

SpecPure == InitPure /\ [][NextPure]_vars

\* ------------------------------------------------------------------------
\* Properties of the validation engine (Spec)
\* ------------------------------------------------------------------------

\* a validate_token_usage call that has its answer
Validated == task[1].pc = "done" /\ task[1].kind = "validate_token_usage"

Answer == task[1].result[1]

\* the names declared in the files a call read, by what was written to them
DeclaredNames(read) ==
  UNION {{read[f][k].name : k \in 1..Len(read[f])} : f \in 1..Len(read)}

HasRule(violations, ruleId) ==
  \E k \in 1..Len(violations) : violations[k].ruleId = ruleId

\* usage i of the answer names a token that no file read declares
Phantom(i) ==
  /\ Answer.tokenUsages[i].token # None
  /\ Answer.tokenUsages[i].token[1] # <<>>
  /\ NormalizeName(Answer.tokenUsages[i].token[1]) \notin DeclaredNames(task[1].read)

\* usage i of the answer names a token that a file read declares
Existing(i) ==
  /\ Answer.tokenUsages[i].token # None
  /\ Answer.tokenUsages[i].token[1] # <<>>
  /\ NormalizeName(Answer.tokenUsages[i].token[1]) \in DeclaredNames(task[1].read)

\* C1: a usage whose token is declared neither as a global nor as a
\* component token gets exactly one violation, critical with ruleId
\* token-existence, and after the existence check no other check is run
\* for it
C1_PhantomStopsChecks ==
  Validated =>
    \A i \in 1..Len(Answer.tokenUsages) :
      Phantom(i) =>
        /\ Len(Answer.perUsage[i].violations) = 1
        /\ Answer.perUsage[i].violations[1].severity = "critical"
        /\ Answer.perUsage[i].violations[1].ruleId = "token-existence"
        /\ Answer.perUsage[i].checks = <<"token-existence">>
        /\ Cardinality({k \in 1..Len(Answer.violations) :
                          i \in Answer.violations[k].usages}) = 1

C1_Witness ==
  /\ Validated
  /\ task[1].rules # <<>>
  /\ \E i \in 1..Len(Answer.tokenUsages) :
       /\ Answer.tokenUsages[i] = UsagePhantom
       /\ Phantom(i)
       /\ HasRule(Answer.perUsage[i].violations, "token-existence")

AddableUsages ==
  {i \in 1..Len(Answer.tokenUsages) :
     /\ Answer.tokenUsages[i].token # None
     /\ NormalizeName(Answer.tokenUsages[i].token[1]) = AddableToken}

\* C3 as stated: once a token reported as phantom has been declared, the
\* next validation of its usage yields no token-existence violation and no
\* other violation for it
C3_NoViolationAfterAdd ==
  (Validated /\ task[1].afterAdd) =>
    \A i \in AddableUsages : Answer.perUsage[i].violations = <<>>

\* C3, amended: once a token reported as phantom has been declared, the
\* next validation of its usage yields no token-existence violation (the
\* intent checks, which now run, may yield violations of their own)
C3_ExistenceMonotone ==
  (Validated /\ task[1].afterAdd) =>
    \A i \in AddableUsages :
      /\ ~HasRule(Answer.perUsage[i].violations, "token-existence")
      /\ Answer.perUsage[i].checks # <<"token-existence">>
      /\ Head(Answer.perUsage[i].checks) = "token-existence"

C3_Witness ==
  /\ Validated
  /\ task[1].afterAdd
  /\ AddableUsages # {}
  /\ \A i \in AddableUsages :
       HasRule(Answer.perUsage[i].violations, "color-semantic-layer")

\* C4: summary.clean is the number of usages no returned violation is
\* about, and the counts by severity are the numbers of returned violations
\* of each severity
C4_SummaryCounts ==
  Validated =>
    /\ Answer.summary.clean =
         Cardinality({i \in 1..Len(Answer.tokenUsages) :
                        \A k \in 1..Len(Answer.violations) :
                          i \notin Answer.violations[k].usages})
    /\ \A sev \in {"critical", "warning", "info"} :
         Answer.summary[sev] =
           Cardinality({k \in 1..Len(Answer.violations) :
                          Answer.violations[k].severity = sev})

\* C5: with no rules directory the rules loaded are empty, and a usage that
\* names a token can only get the token-existence violation: none at all
\* when its token exists
C5_ExistenceOnlyWithoutRules ==
  (Validated /\ task[1].noRulesDir) =>
    /\ task[1].rules = <<>>
    /\ \A i \in 1..Len(Answer.tokenUsages) :
         Answer.tokenUsages[i].token # None =>
           /\ \A k \in 1..Len(Answer.perUsage[i].violations) :
                Answer.perUsage[i].violations[k].ruleId = "token-existence"
           /\ Existing(i) => Answer.perUsage[i].violations = <<>>

\* ------------------------------------------------------------------------
\* Properties of the rule cache (SpecRules)
\* ------------------------------------------------------------------------

\* C6: every call that arrives after the first assignment of the cache
\* gets the rules of that assignment
C6_Memoized ==
  \A r \in Slots :
    (task[r].afterFirst /\ task[r].pc \in {"run", "done"}) =>
      task[r].rules = firstLoaded[1]

\* C7: the cache is assigned at most once, and keeps what it was assigned
C7_WriteOnce ==
  /\ cacheWrites <= 1
  /\ cachedRules # None => cachedRules = firstLoaded

\* ------------------------------------------------------------------------
\* Properties of lookup (SpecLookup)
\* ------------------------------------------------------------------------

Looked == task[1].pc = "done" /\ task[1].kind = "get_token"

\* the declarations of name in the global files read, in parse order: file
\* by file in registry order, line by line
RECURSIVE Flatten(_)
Flatten(read) == IF read = <<>> THEN <<>> ELSE Head(read) \o Flatten(Tail(read))

DeclarationsOf(name, read) ==
  SelectSeq(Flatten(read), LAMBDA d : d.name = name)

\* C10: get_token answers with the value of the last declaration of the
\* name in parse order, and declarations of one name never make it fail
C10_LastDeclarationWins ==
  Looked =>
    LET ds == DeclarationsOf(NormalizeName(task[1].args.name), task[1].read)
    IN /\ Answer.ok
       /\ ds # <<>> =>
            /\ Answer.found
            /\ Answer.value = ds[Len(ds)].value

C10_Witness ==
  /\ Looked
  /\ Len(DeclarationsOf(NormalizeName(task[1].args.name), task[1].read)) = 3
  /\ Answer.found
  /\ Answer.value = <<"4","r","e","m">>
  /\ Answer.file = "color-token.scss"

\* ------------------------------------------------------------------------
\* Properties of the parser (SpecParse)
\* ------------------------------------------------------------------------

\* the maximal stretches of s without white space
RECURSIVE Words(_)
Words(s) ==
  IF s = <<>> THEN <<>>
  ELSE IF Head(s) \in WhiteSpace THEN Words(Tail(s))
  ELSE LET n == Min({k \in 1..Len(s) : k = Len(s) \/ s[k + 1] \in WhiteSpace})
       IN <<SubSeq(s, 1, n)>> \o Words(SubSeq(s, n + 1, Len(s)))

RECURSIVE Spaced(_)
Spaced(ws) ==
  IF ws = <<>> THEN <<>>
  ELSE IF Len(ws) = 1 THEN ws[1]
  ELSE ws[1] \o <<" ">> \o Spaced(Tail(ws))

\* C8: the text of one line `--x: v;` parses to exactly one token, named
\* --x, whose value is v without the white space around it and with one
\* space for each run of white space inside it
C8_SingleDeclaration ==
  (parseIn.decl # None /\ parseOut # None) =>
    /\ Len(parseOut[1]) = 1
    /\ parseOut[1][1].name = <<"-", "-">> \o parseIn.decl[1].name
    /\ parseOut[1][1].data.value = Spaced(Words(parseIn.decl[1].v))

C8_Witness ==
  /\ parseIn.decl # None
  /\ parseIn.decl[1].v = <<"1", " ", "\t", "1">>
  /\ parseOut # None
  /\ Len(parseOut[1]) = 1
  /\ parseOut[1][1].data.value = <<"1", " ", "1">>

Scenario1Parsed == parseIn.content = Scenario1Text /\ parseOut # None

\* C9 as stated: the text of Scenario 1 parses to one token, of value
\* `0.75em 1.5em` and comment `default`
C9_CommentDefault ==
  Scenario1Parsed =>
    /\ Len(parseOut[1]) = 1
    /\ parseOut[1][1].data.value = <<"0",".","7","5","e","m"," ","1",".","5","e","m">>
    /\ parseOut[1][1].data.comment = Some(<<"d","e","f","a","u","l","t">>)

\* C9, amended: the text of Scenario 1 parses to one token, of value
\* `0.75em 1.5em`, whose comment joins the block comment of the line before
\* and the trailing comment: `Sizes | default`
C9_CommentJoined ==
  Scenario1Parsed =>
    /\ Len(parseOut[1]) = 1
    /\ parseOut[1][1].name = <<"-","-","d","s","a","-","b","u","t","t","o","n","-","-","p","a","d","d","i","n","g">>
    /\ parseOut[1][1].data.value = <<"0",".","7","5","e","m"," ","1",".","5","e","m">>
    /\ parseOut[1][1].data.comment = Some(<<"S","i","z","e","s"," ","|"," ","d","e","f","a","u","l","t">>)

C9_Witness ==
  /\ Scenario1Parsed
  /\ Len(parseOut[1]) = 1
  /\ parseOut[1][1].data.comment # None
  /\ EndsWith(parseOut[1][1].data.comment[1], <<"d","e","f","a","u","l","t">>)

\* ------------------------------------------------------------------------
\* Properties of the registry when a source is lost (SpecLookup)
\* ------------------------------------------------------------------------

\* the sources a finished get_token call could not read
Unread == {i \in 1..Len(task[1].read) : task[1].read[i] = <<>>}

\* C11: a source that cannot be read parses to the empty mapping without
\* raising: get_token is never answered with an error because of it, and it
\* finds every token that a source it could read declares
C11_UnreadableSourceSkipped ==
  Looked =>
    /\ Answer.ok
    /\ NormalizeName(task[1].args.name) \in DeclaredNames(task[1].read)
         => /\ Answer.found
            /\ Answer.token = NormalizeName(task[1].args.name)

\* a lookup that could not read the branding source, and found a token of
\* the color source
C11_Witness ==
  /\ Looked
  /\ Unread = {1}
  /\ task[1].args.name = <<"k","s","-","f","o","n","t","-","s","i","z","e","-","d","i","s","p","l","a","y","-","m">>
  /\ Answer.ok
  /\ Answer.found
  /\ Answer.value = <<"4","r","e","m">>

\* ------------------------------------------------------------------------
\* Properties of update_token (SpecUpdate)
\* ------------------------------------------------------------------------

\* call r is a finished get_token call for a token whose last update had
\* succeeded, with value v, when the call read the files
ReadAfterUpdate(r) ==
  /\ task[r].pc = "done"
  /\ task[r].kind = "get_token"
  /\ NormalizeName(task[r].args.name) \in UpdateNames
  /\ task[r].since[NormalizeName(task[r].args.name)] # None

\* C12: a get_token call that reads the files after update_token(name, v)
\* succeeded, and before another update of that name does, answers with v,
\* white space normalized
C12_ReadsLastUpdate ==
  \A r \in Slots :
    ReadAfterUpdate(r) =>
      /\ task[r].result[1].found
      /\ task[r].result[1].value =
           NormalizeValue(task[r].since[NormalizeName(task[r].args.name)][1])

\* ------------------------------------------------------------------------
\* Properties of list_tokens (SpecList)
\* ------------------------------------------------------------------------

Listed == task[1].pc = "done" /\ task[1].kind = "list_tokens"

\* the tokens that match the filters of the finished call, as parsed:
\* the global tokens, then the component tokens
Matching ==
  SelectSeq([i \in 1..Len(task[1].globalTokens) |-> GlobalEntry(task[1].globalTokens[i])]
            \o [i \in 1..Len(task[1].componentTokens) |->
                  ComponentEntry(task[1].componentTokens[i])],
            LAMBDA token : /\ CategoryFilter(task[1].args, token)
                           /\ PrefixFilter(task[1].args, token))

\* L lists the elements of M by name, those of one name in the order of M
StableSortOf(L, M) ==
  /\ Len(L) = Len(M)
  /\ \A i \in 1..Len(L) : \A j \in (i + 1)..Len(L) :
       localeCompare(L[i].name, L[j].name) <= 0
  /\ \A k \in 1..Len(M) :
       SelectSeq(L, LAMBDA x : x.name = M[k].name)
         = SelectSeq(M, LAMBDA x : x.name = M[k].name)

\* the pages list_tokens gives for the parsed tokens at offsets 0, limit,
\* 2*limit, ... up to the first page without hasMore
RECURSIVE PagesFrom(_, _)
PagesFrom(offset, limit) ==
  LET page == list_tokens([task[1].args EXCEPT !.offset = Some(offset),
                                               !.limit = Some(limit)],
                          task[1].globalTokens, task[1].componentTokens)
  IN IF page.hasMore THEN page.tokens \o PagesFrom(offset + limit, limit)
     ELSE page.tokens

\* C13: the page of list_tokens is the elements offset+1 .. offset+limit of
\* the matching tokens in a stable sort by name, hasMore tells whether
\* matching tokens remain after the page, and the pages at offsets 0,
\* limit, 2*limit, ... together are the sorted list
C13_Pagination ==
  Listed =>
    \E L \in {SortByName(Matching)} :
      /\ StableSortOf(L, Matching)
      /\ Answer.totalMatching = Len(L)
      /\ Answer.tokens =
           [i \in 1..Max({0, Min({Answer.limit, Len(L) - Answer.offset})}) |->
              L[Answer.offset + i]]
      /\ Answer.returned = Len(Answer.tokens)
      /\ Answer.hasMore <=> (Answer.offset + Len(Answer.tokens) < Len(L))
      /\ PagesFrom(0, Answer.limit) = L

\* a page of two that is neither the first nor the last, with the global
\* and the component declaration of one name
C13_Witness ==
  /\ Listed
  /\ Answer.offset = 1
  /\ Answer.limit = 2
  /\ Answer.hasMore
  /\ Len(Answer.tokens) = 2
  /\ Answer.tokens[1].name = AddableToken
  /\ Answer.tokens[2].name = AddableToken
  /\ Answer.tokens[1].source = None
  /\ Answer.tokens[2].source = Some("component")

\* ------------------------------------------------------------------------
\* Properties of the name decomposer and of the value classifier (SpecPure)
\* ------------------------------------------------------------------------

Decomposed == pureIn.fn = "decompose" /\ pureOut # None

\* C14: a name PREFIX-{component}_{variant}--{property}_{state} with a
\* recognized state decomposes to that variant, property and state and to
\* no element; --dsa-button_primary--background-color_hover of component
\* button gives variant primary, property background-color and state hover
C14_VariantPropertyState ==
  (/\ Decomposed
   /\ pureIn.elements = <<>>
   /\ pureIn.variant # None
   /\ pureIn.state # None)
  => /\ pureOut[1].first = [element |-> None, variant |-> pureIn.variant,
                            cssProperty |-> pureIn.cssProperty,
                            state |-> pureIn.state]
     /\ pureOut[1].name = <<"-","-","d","s","a","-","b","u","t","t","o","n","_","p","r","i","m","a","r","y","-","-","b","a","c","k","g","r","o","u","n","d","-","c","o","l","o","r","_","h","o","v","e","r">>
          => pureOut[1].first = [element |-> None,
                                 variant |-> Some(<<"p","r","i","m","a","r","y">>),
                                 cssProperty |-> <<"b","a","c","k","g","r","o","u","n","d","-","c","o","l","o","r">>,
                                 state |-> Some(<<"h","o","v","e","r">>)]

C14_Witness ==
  /\ Decomposed
  /\ pureIn.component = <<"b","u","t","t","o","n">>
  /\ pureOut[1].name = <<"-","-","d","s","a","-","b","u","t","t","o","n","_","p","r","i","m","a","r","y","-","-","b","a","c","k","g","r","o","u","n","d","-","c","o","l","o","r","_","h","o","v","e","r">>
  /\ pureOut[1].first.variant = Some(<<"p","r","i","m","a","r","y">>)
  /\ pureOut[1].first.state = Some(<<"h","o","v","e","r">>)

\* C15: a name of the grammar, recomposed from the component and the four
\* fields it decomposes to, decomposes to the same four fields
C15_RoundTrip ==
  Decomposed => pureOut[1].second = pureOut[1].first

\* a name with two nested elements, a variant and a state that made the
\* round trip
C15_Witness ==
  /\ Decomposed
  /\ Len(pureIn.elements) = 2
  /\ pureIn.variant # None
  /\ pureIn.state # None
  /\ pureOut[1].first.element = Some(<<"c","o","p","y",".","i","c","o","n","-","2">>)
  /\ pureOut[1].first.variant = pureIn.variant
  /\ pureOut[1].rebuilt = pureOut[1].name
  /\ pureOut[1].second = pureOut[1].first

Classified == pureIn.fn = "classify" /\ pureOut # None

ValueTypes == {"literal", "global-reference", "component-reference", "calculated"}

C17_ReferencedIdentifier ==
  Classified =>
    /\ pureIn.shape = "calc" =>
         /\ pureOut[1].valueType = "calculated"
         /\ pureOut[1].referencedToken = Some(pureIn.ident)
    /\ pureIn.shape = "var" =>
         /\ pureOut[1].valueType =
              (IF IsComponentRef(pureIn.ident) THEN "component-reference"
               ELSE "global-reference")
         /\ pureOut[1].referencedToken = Some(pureIn.ident)

\* ------------------------------------------------------------------------
\* Properties of the recommender (SpecPure)
\* ------------------------------------------------------------------------

Recommends == pureIn.fn = "recommend" /\ pureOut # None

\* the candidates of the rule that applies to the property asked for: the
\* entries of its tokens map and the levels of its scale
CandidatesAsked ==
  IF ApplicableRules(pureIn.cssProperty, pureIn.rules) = <<>> THEN <<>>
  ELSE TokenCandidates(ApplicableRules(pureIn.cssProperty, pureIn.rules)[1])
       \o ScaleCandidates(ApplicableRules(pureIn.cssProperty, pureIn.rules)[1])

NoValidContextMatches ==
  \A i \in 1..Len(CandidatesAsked) :
    ~MatchesValid(CandidatesAsked[i],
                  JoinContext(pureIn.element, pureIn.designContext))

\* C18: when no candidate's validContexts match the context, the
\* recommendations are all the candidates of the rule, each at confidence
\* low, and not the empty list
C18_FallbackToAllCandidates ==
  (Recommends /\ CandidatesAsked # <<>> /\ NoValidContextMatches) =>
    /\ pureOut[1].recommendations # <<>>
    /\ [i \in 1..Len(pureOut[1].recommendations) |->
          pureOut[1].recommendations[i].token]
         = [i \in 1..Len(CandidatesAsked) |-> CandidatesAsked[i].token]
    /\ \A i \in 1..Len(pureOut[1].recommendations) :
         /\ pureOut[1].recommendations[i].confidence = "low"
         /\ pureOut[1].recommendations[i].rank = i

\* a text color asked for a footer, which no context of the rule names
C18_Witness ==
  /\ Recommends
  /\ pureIn.cssProperty = <<"c","o","l","o","r">>
  /\ pureIn.element = <<"f","o","o","t","e","r">>
  /\ pureIn.designContext = None
  /\ CandidatesAsked # <<>>
  /\ NoValidContextMatches
  /\ Len(pureOut[1].recommendations) = 2
  /\ pureOut[1].recommendations[1].confidence = "low"

\* ------------------------------------------------------------------------
\* Properties of the answers to names that are not declared (SpecNamed)
\* ------------------------------------------------------------------------

\* a call of a tool that is given a token, a component or a rule by name
\* has been answered
Named ==
  /\ task[1].pc = "done"
  /\ task[1].kind \in {"get_token", "get_component_tokens",
                       "validate_component_tokens", "get_design_rules"}

\* the name the call was given is the name of nothing: a token that no
\* source read declares, a component that COMPONENT_TOKEN_FILES does not
\* declare in any case of the letters, a rule that was not loaded
NamesNothing ==
  IF task[1].kind = "get_token"
  THEN ~MapHas(task[1].globalTokens, NormalizeName(task[1].args.name))
  ELSE IF task[1].kind = "get_design_rules"
  THEN /\ task[1].args.ruleId # None
       /\ FindRule(task[1].rules, task[1].args.ruleId[1]) = None
  ELSE /\ task[1].args.component # None
       /\ \A i \in 1..Len(COMPONENT_TOKEN_FILES) :
            COMPONENT_TOKEN_FILES[i].slug # ToLowerCase(task[1].args.component[1])

\* the answer is a result that says not found and has suggestions, and
\* was not made by the catch of the handler from an exception
StructuredNotFound(res) ==
  /\ res.ok
  /\ "found" \in DOMAIN res
  /\ ~res.found
  /\ "suggestions" \in DOMAIN res

\* C19: a call of get_token, get_component_tokens,
\* validate_component_tokens or get_design_rules that names a token, a
\* component or a rule that does not exist is answered with a not-found
\* result that carries suggestions, and never with an exception, whatever
\* its other arguments are
C19_UnknownNameNotFound ==
  (Named /\ NamesNothing) => StructuredNotFound(Answer)

\* ------------------------------------------------------------------------
\* Properties of the calls that lack a required argument (SpecArgs)
\* ------------------------------------------------------------------------

\* a call that lacks an argument its tool requires has been answered: a
\* search without pattern, a recommendation without element or without
\* cssProperty, a batch validation without tokenUsages
LacksArgument ==
  /\ task[1].pc = "done"
  /\ \/ /\ task[1].kind = "search_tokens"
        /\ task[1].args.pattern = None
     \/ /\ task[1].kind = "get_token_for_context"
        /\ task[1].args.element = None \/ task[1].args.cssProperty = None
     \/ /\ task[1].kind = "validate_token_usage"
        /\ "tokenUsages" \notin DOMAIN task[1].args

\* the call has assigned the rule cache: the cache was empty when the
\* call arrived and is not now (calls are made one at a time)
PopulatedCache == ~task[1].afterFirst /\ cachedRules # None

\* C20: a call that lacks a required argument is answered with an error,
\* and between its arrival and the error no file operation is attempted
\* (no token source and no rule document is read) and the rule cache is
\* not assigned
C20_RejectedBeforeIO ==
  LacksArgument =>
    /\ ~Answer.ok
    /\ task[1].io = {}
    /\ ~PopulatedCache

\* ------------------------------------------------------------------------
\* Properties of the parser on sequences of lines (SpecLines)
\* ------------------------------------------------------------------------

LinesParsed == "lines" \in DOMAIN parseIn /\ parseOut # None

\* whether a block comment is open behind line i of ls: a comment opens
\* on a line that ends in its opening, and closes on the first line
\* after it that holds a closing
RECURSIVE OpenBehind(_, _)
OpenBehind(ls, i) ==
  IF i = 0 THEN FALSE
  ELSE IF OpenBehind(ls, i - 1) THEN ~Includes(ls[i].text, <<"*", "/">>)
  ELSE ls[i].kind \in {"open", "midopen"}

\* line i is read outside of every block comment opened before it
Live(ls, i) == ~OpenBehind(ls, i - 1)

\* line i is the last line of a block comment of several lines
Closes(ls, i) == OpenBehind(ls, i - 1) /\ ~OpenBehind(ls, i)

\* the text of the block comment that line i closes: what is behind its
\* opening and the lines after it, joined with spaces
BlockText(ls, i) ==
  LET j == Max({k \in 1..(i - 1) : Live(ls, k) /\ ls[k].kind \in {"open", "midopen"}})
  IN Join(SelectSeq(<<ls[j].label>> \o [k \in 1..(i - j) |-> ls[j + k].body],
                    LAMBDA t : t # <<>>),
          <<" ">>)

\* the documentation comment that is complete with line i: None, or
\* Some(its text)
CommentAt(ls, i) ==
  IF Live(ls, i) /\ ls[i].kind = "comment" THEN Some(ls[i].label)
  ELSE IF Closes(ls, i) THEN Some(BlockText(ls, i))
  ELSE None

\* the declarations, the section markers and the selectors of ls
IsDecl(ls, i) == Live(ls, i) /\ ls[i].kind = "decl"
IsMarker(ls, i) == Live(ls, i) /\ ls[i].kind = "section"
IsSelector(ls, i) == Live(ls, i) /\ ls[i].kind = "selector"

\* the declaration a token has its data from: the last of its name (0
\* when no declaration has the name)
LastDecl(ls, name) ==
  Max({0} \cup {i \in 1..Len(ls) : IsDecl(ls, i) /\ ls[i].name = name})

\* the section of a declaration at line i: the text of the nearest
\* section marker before it
NearestSection(ls, i) ==
  LET M == {k \in 1..(i - 1) : IsMarker(ls, k)}
  IN IF M = {} THEN None ELSE Some(ls[Max(M)].label)

\* the comments pending at line i: those complete since the last
\* declaration, section marker or selector before it, in input order
PendingAt(ls, i) ==
  LET from == Max({0} \cup {k \in 1..(i - 1) :
                     IsDecl(ls, k) \/ IsMarker(ls, k) \/ IsSelector(ls, k)})
      found == SelectSeq([k \in 1..(i - 1) |->
                            IF k > from THEN CommentAt(ls, k) ELSE None],
                         LAMBDA c : c # None)
  IN [k \in 1..Len(found) |-> found[k][1]]

\* the comment of a declaration at line i: None, or Some(the pending
\* comments and its trailing comment, joined with " | ")
AttachedComment(ls, i) ==
  LET all == PendingAt(ls, i) \o (IF ls[i].trail = None THEN <<>> ELSE ls[i].trail)
  IN IF all = <<>> THEN None ELSE Some(Join(all, <<" ", "|", " ">>))

\* the comments a token comment is joined of
JoinedOf(comment) ==
  IF comment = None THEN {}
  ELSE {Trim(Split(comment[1], "|")[k]) : k \in 1..Len(Split(comment[1], "|"))}

\* every block comment of the text opens at the start of its line
OpensAtLineStart ==
  \A i \in 1..Len(parseIn.lines) : parseIn.lines[i].kind \notin {"inline", "midopen"}

C23_NoTokenFromComment ==
  LinesParsed =>
    \A e \in 1..Len(parseOut[1]) :
      LastDecl(parseIn.lines, parseOut[1][e].name) > 0

\* ------------------------------------------------------------------------
\* Properties of the typography pairing check (SpecBatch)
\* ------------------------------------------------------------------------

BatchValidated == pureIn.fn = "validate" /\ pureOut # None

\* the group a usage belongs to: its element, or None without one
GroupOf(usage) == OrNull(usage.element)

\* the typography categories the font-size, line-height and font-family
\* usages of group g carry
CategoriesCarried(tokenUsages, g) ==
  {extractTypographyCategory(tokenUsages[i].token[1])[1] :
     i \in {j \in 1..Len(tokenUsages) :
              /\ GroupOf(tokenUsages[j]) = g
              /\ OrNull(tokenUsages[j].token) # None
              /\ TypoSlot(tokenUsages[j].cssProperty) # None
              /\ extractTypographyCategory(tokenUsages[j].token[1]) # None}}

\* the typography pairing warnings that are about usages of group g
PairingWarnings(res, g) ==
  {v \in 1..Len(res.violations) :
     /\ res.violations[v].ruleId = "typography-pairing"
     /\ res.violations[v].severity = "warning"
     /\ \E i \in res.violations[v].usages : GroupOf(res.tokenUsages[i]) = g}

\* C24: with the typography pairing rule loaded, for every element of the
\* batch (the usages without element are one group) there is exactly one
\* typography pairing warning when its font-size, line-height and
\* font-family usages carry more than one category, and none otherwise
C24_OnePairingWarningPerElement ==
  BatchValidated =>
    \A i \in 1..Len(pureIn.tokenUsages) :
      LET g == GroupOf(pureIn.tokenUsages[i])
      IN Cardinality(PairingWarnings(pureOut[1], g))
           = IF Cardinality(CategoriesCarried(pureIn.tokenUsages, g)) > 1
             THEN 1 ELSE 0

\* the same for the batches in which no element has two usages of one of
\* the three properties, and no element is named "_root"
C24_OneUsagePerProperty ==
  (/\ BatchValidated
   /\ \A i, j \in 1..Len(pureIn.tokenUsages) :
        (/\ i # j
         /\ GroupOf(pureIn.tokenUsages[i]) = GroupOf(pureIn.tokenUsages[j]))
          => pureIn.tokenUsages[i].cssProperty # pureIn.tokenUsages[j].cssProperty
   /\ \A i \in 1..Len(pureIn.tokenUsages) :
        pureIn.tokenUsages[i].element # Some(<<"_","r","o","o","t">>))
  => C24_OnePairingWarningPerElement

\* ------------------------------------------------------------------------
\* Properties of the component audit (SpecAudit)
\* ------------------------------------------------------------------------

Audited == pureIn.fn = "audit" /\ pureOut # None /\ pureOut[1].res.ok

\* the groups of the tokens: the pairs of variant and property
TokenGroups(tokens) ==
  {<<tokens[i].variant, tokens[i].cssProperty>> : i \in 1..Len(tokens)}

Members(tokens, g) ==
  {i \in 1..Len(tokens) : <<tokens[i].variant, tokens[i].cssProperty>> = g}

\* the states hover and active, as far as a member of group g declares
\* them
RequiredDeclared(tokens, g) ==
  {s \in {<<"h","o","v","e","r">>, <<"a","c","t","i","v","e">>} :
     \E i \in Members(tokens, g) : tokens[i].state = Some(s)}

\* the state completeness warnings about group g: those whose tokens are
\* members of g
CompletenessWarnings(res, tokens, g) ==
  {v \in 1..Len(res.audit.violations) :
     /\ res.audit.violations[v].ruleId = "interactive-state-completeness"
     /\ res.audit.violations[v].severity = "warning"
     /\ \E i \in Members(tokens, g) :
          \E k \in 1..Len(Split(res.audit.violations[v].token, ",")) :
            Trim(Split(res.audit.violations[v].token, ",")[k]) = tokens[i].name}

\* C25: with the state completeness rule loaded, a group of tokens of
\* one variant and one color property has a state completeness warning if
\* and only if its members declare one of the states hover and active and
\* not the other; a group of another property has none
C25_WarningIffStatesIncomplete ==
  (Audited /\ ~SeverityAsked(pureIn.args)) =>
    \A g \in TokenGroups(pureOut[1].tokens) :
      (CompletenessWarnings(pureOut[1].res, pureOut[1].tokens, g) # {})
        <=> /\ g[2] \in ColorStateProperties
            /\ Cardinality(RequiredDeclared(pureOut[1].tokens, g)) = 1

\* the same for the groups in which hover or active is declared, or no
\* state at all
C25_SomeRequiredDeclared ==
  (Audited /\ ~SeverityAsked(pureIn.args)) =>
    \A g \in TokenGroups(pureOut[1].tokens) :
      (\/ RequiredDeclared(pureOut[1].tokens, g) # {}
       \/ \A i \in Members(pureOut[1].tokens, g) : pureOut[1].tokens[i].state = None)
      => ((CompletenessWarnings(pureOut[1].res, pureOut[1].tokens, g) # {})
            <=> /\ g[2] \in ColorStateProperties
                /\ Cardinality(RequiredDeclared(pureOut[1].tokens, g)) = 1)

\* C30: in every report totalViolations is the number of the violations
\* returned, and the sum of the critical, warning and info counts of the
\* summary
C30_TotalIsCountOfViolations ==
  Audited =>
    /\ pureOut[1].res.audit.totalViolations = Len(pureOut[1].res.audit.violations)
    /\ pureOut[1].res.audit.totalViolations
         = pureOut[1].res.audit.summary.critical
           + pureOut[1].res.audit.summary.warning
           + pureOut[1].res.audit.summary.info

\* the same for the reports that are not filtered by severity
C30_Unfiltered ==
  (Audited /\ ~SeverityAsked(pureIn.args)) => C30_TotalIsCountOfViolations

\* ------------------------------------------------------------------------
\* Properties of the recommendations with options (SpecPure)
\* ------------------------------------------------------------------------

\* how often the marker "-inverted" occurs in a token name
InvertedMarkers(tokenName) ==
  Cardinality({i \in 1..Len(tokenName) :
                 /\ i + 8 <= Len(tokenName)
                 /\ SubSeq(tokenName, i, i + 8) = <<"-","i","n","v","e","r","t","e","d">>})

\* C26: when inverted is requested, every token of the recommendations
\* carries the marker "-inverted" exactly once
C26_InvertedMarkerOnce ==
  (Recommends /\ pureIn.options.inverted) =>
    \A i \in 1..Len(pureOut[1].recommendations) :
      InvertedMarkers(pureOut[1].recommendations[i].token) = 1

\* the same for the recommendations of a rule with a token map that are
\* made at confidence high
C26_TokenMapMatches ==
  (Recommends /\ pureIn.options.inverted) =>
    \A i \in 1..Len(pureOut[1].recommendations) :
      (/\ pureOut[1].recommendations[i].confidence = "high"
       /\ pureIn.cssProperty = <<"c","o","l","o","r">>)
        => InvertedMarkers(pureOut[1].recommendations[i].token) = 1

\* C27: no token is both in the recommendations and in avoid
C27_RecommendedNotAvoided ==
  Recommends =>
    \A i \in 1..Len(pureOut[1].recommendations) :
      \A j \in 1..Len(pureOut[1].avoid) :
        pureOut[1].recommendations[i].token # pureOut[1].avoid[j].token

\* the same for the results with a recommendation at confidence high
C27_WithMatches ==
  (/\ Recommends
   /\ \E i \in 1..Len(pureOut[1].recommendations) :
        pureOut[1].recommendations[i].confidence = "high")
  => C27_RecommendedNotAvoided

\* ------------------------------------------------------------------------
\* Properties of update_token calls that overlap (SpecUpdate)
\* ------------------------------------------------------------------------

\* an update_token call has arrived and has not been answered
UpdateInFlight ==
  \E r \in Slots : task[r].kind = "update_token" /\ task[r].pc # "done"

\* C28: once the update_token calls are completed, the files hold the
\* new value of every token that was updated with success, also when the
\* calls for two tokens of one file overlapped
C28_BothUpdatesKept ==
  ~UpdateInFlight =>
    \A n \in UpdateNames :
      updated[n] # None =>
        /\ MapGet(parseAllTokens(fsys, None), n) # None
        /\ MapGet(parseAllTokens(fsys, None), n)[1].value = NormalizeValue(updated[n][1])

\* ------------------------------------------------------------------------
\* Properties of update_token calls one at a time (SpecFrame)
\* ------------------------------------------------------------------------

UpdateAnswered == pureIn.fn = "update" /\ pureOut # None

\* the names and values of the tokens a file declares, but for name
OtherTokens(fs, path, name) ==
  IF fs[path] = None THEN {}
  ELSE {<<ParseContent(fs[path][1], "f", "c")[k].name,
          ParseContent(fs[path][1], "f", "c")[k].data.value>> :
          k \in {j \in 1..Len(ParseContent(fs[path][1], "f", "c")) :
                   ParseContent(fs[path][1], "f", "c")[j].name # name}}

\* C29: an update_token call leaves the name and the value of every
\* token but the named one as they were, in every file, it writes no
\* file but the one that declares the token, and none when the token is
\* not found
C29_OnlyNamedTokenChanges ==
  UpdateAnswered =>
    /\ \A path \in DOMAIN fsys :
         OtherTokens(fsys, path, NormalizeName(pureIn.name))
           = OtherTokens(pureOut[1].before, path, NormalizeName(pureIn.name))
    /\ pureOut[1].res.ok =>
         \A path \in DOMAIN fsys :
           path # Path(TOKENS_DIR, pureOut[1].res.file) => fsys[path] = pureOut[1].before[path]
    /\ ~pureOut[1].res.ok => fsys = pureOut[1].before

\* the same for the new values of one line
C29_OneLineValues ==
  (UpdateAnswered /\ \A k \in 1..Len(pureIn.value) : pureIn.value[k] # "\n")
    => C29_OnlyNamedTokenChanges

====
